---- MODULE Spec2Model ----
(***************************************************************************)
(* Streaming session manager of the FanoSTT browser client.                *)
(*                                                                         *)
(*   hook  - the Session Protocol Client (useWebSocket): one transport,    *)
(*           its pending message queue and its reconnect policy.  Two      *)
(*           variants live in the source: "auto" (reconnect with backoff)  *)
(*           and "manual" (reconnection disabled).                         *)
(*   page  - the Streaming Orchestrator (HomePage).  Two variants live in  *)
(*           the source: "current" (src/app/page.tsx) and "earlier" (the   *)
(*           HomePage kept in src/hooks/useAudioRecorder.ts).              *)
(*   rec   - the Audio Capture Pump (useAudioRecorder).                    *)
(*                                                                         *)
(* The program is single-threaded and event-driven: every action below is  *)
(* one event handler run to completion, reading the state committed by the *)
(* handlers before it.  A React effect whose condition is true runs before *)
(* the next event is delivered.                                            *)
(***************************************************************************)
EXTENDS Integers, Sequences, FiniteSets, TLC

VARIABLES
    variant,      \* which useWebSocket is mounted: "auto" | "manual"
    pageVariant,  \* which HomePage is mounted: "current" | "earlier"
    hook,         \* state of useWebSocket
    page,         \* state of HomePage
    rec,          \* state of useAudioRecorder
    env,          \* event counters of the environment (message ids, budgets)
    pcm           \* the buffers handed to the functions of utils/audio.ts

vars == <<variant, pageVariant, hook, page, rec, env, pcm>>

----------------------------------------------------------------------------
(* Bounds of the model *)

MaxSends == 3      \* messages handed to sendMessage by a direct caller
MaxConns == 3      \* transports created by the callers of the hook alone
MaxBackoffConns == 7  \* transports created in the reconnect scenario
MaxFails == 2      \* send() calls of the transport that throw
MaxOnline == 1     \* window "online" events
MaxDisconnects == 1  \* disconnect() calls of a direct caller
FloodSends == 52   \* sends of the flood scenario (one transport, no failure)
MaxPageConns == 2  \* transports created under the page
MaxChunks == 2     \* audio chunks captured
MaxResults == 1    \* backend messages delivered
MaxStops == 1      \* clicks on the stop button
MaxStarts == 2     \* clicks on the record button
MaxTakes == 1      \* recordings begun
MaxPageFails == 0  \* send() calls that throw under the page
MaxRetries == 2    \* pending resends of the last request
FloodChunks == 52  \* audio chunks of the overflow scenario
FloodConns == 3    \* transports of the overflow scenario
FloodFails == 1    \* send() calls that throw in the overflow scenario
MaxShadow == 2     \* segments of the shadow buffer of the merge scenario
MaxUploads == 1          \* clicks on the upload button
MaxUploadConns == 2      \* transports created in the upload scenario
MaxUploadResults == 1    \* backend messages in the upload scenario
MaxUploadFails == 1      \* failing sends in the upload scenario
MaxUploadRetries == 2    \* retry timers set in the upload scenario
MaxResultMsgs == 2       \* backend messages in the results scenario
MaxResultChunks == 1     \* audio chunks in the results scenario
MaxResultRetries == 1    \* retry timers set in the results scenario
MaxBudgetConns == 7      \* transports created in the budget scenario
MaxBudgetChunks == 1     \* audio chunks in the budget scenario
MaxCaptureConns == 1     \* transports created in the capture scenario
MaxCaptureChunks == 2    \* audio chunks in the capture scenario
MaxInboundConns == 2     \* transports created in the inbound scenario
MaxInboundMsgs == 1      \* backend messages in the inbound scenario
MaxMalformed == 1        \* malformed frames in the inbound scenario
MaxSample == 160         \* PCM inputs are j / 2^SampleBits, |j| <= MaxSample
SampleBits == 7          \* binary digits after the point of a PCM input
MaxTrips == 1            \* decodings of a sample in the codec scenario
MaxPumpTakes == 2        \* recordings begun in the capture pump scenario
MaxPumpChunks == 1       \* audio chunks in the capture pump scenario
MaxSegments == 3         \* backend messages in the transcript scenario
MaxBufLen == 3           \* samples in a buffer handed to splitAudioIntoChunks
MaxChunkMs == 3          \* chunk duration, in milliseconds
MaxSplitSteps == 4       \* iterations of the loop of splitAudioIntoChunks followed

(* Program constants *)

ReconnectAttempts == 5
ReconnectInterval == 3000
MaxReconnectDelay == 30000
NormalClosure == 1000
ProxyFailure == 1011
PendingCap == 50
MaxRecoveryAttempts == 5
RecoveryBase == 1000
RecoveryCap == 10000
Int16Neg == 32768        \* 0x8000, the scale of negative samples
Int16Pos == 32767        \* 0x7fff, the scale of the other samples
MantissaBits == 24       \* significant binary digits of a Float32Array element

----------------------------------------------------------------------------
(* Helpers *)

Min(a, b) == IF a < b THEN a ELSE b

RECURSIVE Pow(_, _)
Pow(b, n) == IF n = 0 THEN 1 ELSE b * Pow(b, n - 1)

\* Delays are kept in units of 1/DelayScale ms so that 1.5^(n-1) stays integral
\* for every attempt n in 1..ReconnectAttempts.
DelayScale == Pow(2, ReconnectAttempts - 1)

\* a fixed delay instead of a growing one
ReconnectDelayFixed(n) == ReconnectInterval * DelayScale

\* Math.min(reconnectInterval * Math.pow(1.5, reconnectCountRef.current - 1), 30000)
ReconnectDelay(n) ==
    Min(ReconnectInterval * Pow(3, n - 1) * Pow(2, ReconnectAttempts - n),
        MaxReconnectDelay * DelayScale)

----------------------------------------------------------------------------
(* World: the three components threaded through a handler.  A handler is an  *)
(* operator h(W, S, ...): W is the world it updates, S the world committed   *)
(* before the event.  React state (useState) is read from S, because a       *)
(* handler sees the values of the last render, and written to W; refs        *)
(* (useRef) are read and written in W.                                       *)

World == [h |-> hook, p |-> page, r |-> rec]

\* A request message: id numbers the messages in the order they are built,
\* chunks are the captured audio chunks it carries, take is the recording it
\* belongs to (0: none).
Message(id, kind, chunks, take) ==
    [id |-> id, kind |-> kind, chunks |-> chunks, take |-> take]

\* A frame on the wire: the message and the transport (gen) that carried it
Frame(m, g) ==
    [id |-> m.id, kind |-> m.kind, chunks |-> m.chunks, take |-> m.take,
     gen |-> g]

NoRequest == Message(0, "none", <<>>, 0)

ConfigMessage(id, take) == Message(id, "config", <<>>, take)
EofMessage(id, take) == Message(id, "eof", <<>>, take)

\* The strings of the transcript are sequences of tokens; SP is " ".
SP == " "
StrOf(text) == IF text = "" THEN <<>> ELSE <<text>>

\* prev + transcript, without the separator
appendTranscriptNoSpace(prev, text) == prev \o StrOf(text)

\* prev + (prev ? " " : "") + transcript
appendTranscript(prev, text) ==
    IF prev = <<>> THEN StrOf(text) ELSE prev \o <<SP>> \o StrOf(text)

\* [...prev, message].slice(-50)
keepLast(seq, n) ==
    IF Len(seq) <= n THEN seq ELSE SubSeq(seq, Len(seq) - n + 1, Len(seq))

----------------------------------------------------------------------------
(* useWebSocket: the operations the callers use *)

\* clearTimeouts: the auto variant cancels the reconnect timer; the manual
\* variant never has one (timer stays 0).
clearTimeouts(W) == [W EXCEPT !.h.timer = 0]

\* a connect() without the guard on the transport's readyState
connectAgain(W) ==
    LET W1 == clearTimeouts([W EXCEPT !.h.manual = FALSE]) IN
    [W1 EXCEPT !.h.state = "connecting",
               !.h.ws = "CONNECTING",
               !.h.gen = @ + 1]

\* connect()
connect(W) ==
    IF W.h.ws \in {"OPEN", "CONNECTING"}
    THEN W
    ELSE LET W1 == clearTimeouts([W EXCEPT !.h.manual = FALSE]) IN
         [W1 EXCEPT !.h.state = "connecting",
                    !.h.ws = "CONNECTING",
                    !.h.gen = @ + 1]

\* disconnect(): the detached transport still delivers its close event
disconnect(W) ==
    LET W1 == clearTimeouts([W EXCEPT !.h.manual = TRUE]) IN
    [W1 EXCEPT !.h.stale = IF W.h.ws \in {"OPEN", "CONNECTING"}
                           THEN Append(@, W.h.ws) ELSE @,
               !.h.ws = "NULL",
               !.h.closePending = FALSE,
               !.h.queue = <<>>,
               !.h.state = "disconnected"]

\* sendMessage(message); fail: the transport's send() throws
sendMessage(W, S, m, fail) ==
    IF W.h.ws = "OPEN"
    THEN IF fail
         THEN [W EXCEPT !.h.queue = Append(@, m),
                        !.p.errorToasts = @ + 1]
         ELSE [W EXCEPT !.h.wire = Append(@, Frame(m, W.h.gen))]
    ELSE LET W1 == [W EXCEPT !.h.queue = Append(@, m)] IN
         IF variant = "auto" /\ S.h.state = "disconnected"
         THEN connect(W1)
         ELSE W1

\* the forEach of processMessageQueue over the copy of the queue; fails: the
\* positions whose send() throws.  A sent message goes to the wire, a failed
\* one is unshifted onto the (emptied) queue.
flush(messages, fails) ==
    LET step[i \in 0..Len(messages)] ==
            IF i = 0
            THEN [sent |-> <<>>, queue |-> <<>>]
            ELSE IF i \in fails
                 THEN [step[i - 1] EXCEPT !.queue = <<messages[i]>> \o @]
                 ELSE [step[i - 1] EXCEPT !.sent = Append(@, messages[i])]
    IN  step[Len(messages)]

\* processMessageQueue()
processMessageQueue(W, fails) ==
    IF W.h.ws = "OPEN" /\ Len(W.h.queue) > 0
    THEN LET done == flush(W.h.queue, fails) IN
         [W EXCEPT !.h.queue = done.queue,
                   !.h.wire = @ \o [i \in 1..Len(done.sent) |->
                                        Frame(done.sent[i], W.h.gen)]]
    ELSE W

----------------------------------------------------------------------------
(* HomePage: the pending-chunk buffer *)

\* setPendingChunks((prev) => [...prev, message].slice(-50)); overflowed
\* records that the slice discarded a chunk since the buffer was last empty
enqueuePending(W, m) ==
    [W EXCEPT !.p.pendingChunks = keepLast(Append(@, m), PendingCap),
              !.p.overflowed = @ \/ Len(W.p.pendingChunks) >= PendingCap]

\* setPendingChunks([])
clearPending(W) ==
    [W EXCEPT !.p.pendingChunks = <<>>, !.p.overflowed = FALSE]

----------------------------------------------------------------------------
(* HomePage: the handlers of the interval audio and of the recorder *)

\* handleIntervalAudio(intervalAudio, duration): page.tsx only; the earlier
\* HomePage passes no onIntervalAudio to the recorder.
handleIntervalAudio(W, S, m, fail) ==
    IF pageVariant = "current" /\ S.h.state = "connected"
    THEN sendMessage([W EXCEPT !.p.lastRequest = m], S, m, fail)
    ELSE W

\* no interval audio was handed over yet
NoFlush == [by |-> "none", audio |-> <<>>]

\* updateState(state): onStateChange is told the state of the recorder
updateState(W, state) ==
    [W EXCEPT !.r.state = state,
              !.r.moves = IF state # W.r.state
                          THEN @ \cup {<<W.r.state, state>>} ELSE @]

\* sendIntervalAudio that leaves the interval buffer as it is
sendIntervalAudioKeepBuffer(W, S, id, fail, by) ==
    IF Len(W.r.intervalBuffer) = 0
    THEN W
    ELSE LET m == Message(id, "audio", W.r.intervalBuffer, W.r.take)
             W1 == handleIntervalAudio(W, S, m, fail)
         IN  [W1 EXCEPT !.r.flushed = @ \o W.r.intervalBuffer,
                        !.r.lastFlush = [by |-> by,
                                         audio |-> W.r.intervalBuffer]]

\* sendIntervalAudio() of useAudioRecorder; id: the id of the message built,
\* by: its caller (interval | pause | stop)
sendIntervalAudio(W, S, id, fail, by) ==
    IF Len(W.r.intervalBuffer) = 0
    THEN W
    ELSE LET m == Message(id, "audio", W.r.intervalBuffer, W.r.take)
             W1 == handleIntervalAudio(W, S, m, fail)
         IN  [W1 EXCEPT !.r.intervalBuffer = <<>>,
                        !.r.flushed = @ \o W.r.intervalBuffer,
                        !.r.lastFlush = [by |-> by,
                                         audio |-> W.r.intervalBuffer]]

\* cleanup without clearInterval(intervalTimerRef.current)
cleanupKeepTimer(W) ==
    [W EXCEPT !.r.held = {},
              !.r.intervalBuffer = <<>>,
              !.r.completeBuffer = <<>>]

\* cleanup() of useAudioRecorder
cleanup(W) ==
    [W EXCEPT !.r.intervalTimer = FALSE,
              !.r.held = {},
              !.r.intervalBuffer = <<>>,
              !.r.completeBuffer = <<>>]

\* stopRecording without the final flush of the interval buffer
stopRecordingNoFlush(W, S, id, fail) ==
    LET wasRecording == S.r.isRecording
        W1 == [W EXCEPT !.r.isRecording = FALSE, !.r.isPaused = FALSE]
        W3 == IF wasRecording /\ Len(W1.r.completeBuffer) > 0
              THEN [W1 EXCEPT !.r.completed = @ + 1,
                              !.r.lastComplete = W1.r.completeBuffer]
              ELSE W1
    IN  cleanup(updateState(W3, "stopped"))

\* stopRecording() of useAudioRecorder
stopRecording(W, S, id, fail) ==
    LET wasRecording == S.r.isRecording
        W1 == [W EXCEPT !.r.isRecording = FALSE, !.r.isPaused = FALSE]
        W2 == IF wasRecording /\ Len(W1.r.intervalBuffer) > 0
              THEN sendIntervalAudio(W1, S, id, fail, "stop")
              ELSE W1
        W3 == IF wasRecording /\ Len(W2.r.completeBuffer) > 0
              THEN [W2 EXCEPT !.r.completed = @ + 1,
                              !.r.lastComplete = W2.r.completeBuffer]
              ELSE W2
    IN  cleanup(updateState(W3, "stopped"))

\* pauseRecording without the flush of the interval buffer
pauseRecordingNoFlush(W, S, id, fail) ==
    IF ~S.r.isRecording
    THEN W
    ELSE updateState([W EXCEPT !.r.isPaused = TRUE], "paused")

\* pauseRecording(); the interval timer keeps running and skips while paused
pauseRecording(W, S, id, fail) ==
    IF ~S.r.isRecording
    THEN W
    ELSE LET W1 == [W EXCEPT !.r.isPaused = TRUE] IN
         updateState(IF Len(W1.r.intervalBuffer) > 0
                     THEN sendIntervalAudio(W1, S, id, fail, "pause")
                     ELSE W1,
                     "paused")

\* resumeRecording without its guard
resumeRecordingUnguarded(W, S) ==
    [updateState(W, "recording") EXCEPT !.r.isPaused = FALSE,
                                        !.r.intervalTimer = TRUE]

\* resumeRecording(): setupIntervalTimer() again
resumeRecording(W, S) ==
    IF ~S.r.isRecording \/ ~S.r.isPaused
    THEN W
    ELSE [updateState(W, "recording") EXCEPT !.r.isPaused = FALSE,
                                             !.r.intervalTimer = TRUE]

\* Math.min(1000 * Math.pow(2, recoveryAttempts), 10000)
RecoveryDelay(n) == Min(RecoveryBase * Pow(2, n), RecoveryCap)

\* handleAudioChunk(chunk); id: the id of the message built
handleAudioChunk(W, S, c, id, fail) ==
    LET m == Message(id, "audio", <<c>>, W.r.take) IN
    IF pageVariant = "current" /\ S.r.isRecording
    THEN W      \* statistics only: the interval audio carries the recording
    ELSE IF S.h.state = "connected"
    THEN LET W1 == sendMessage([W EXCEPT !.p.lastRequest = m], S, m, fail) IN
         IF Len(S.p.pendingChunks) > 0
         THEN clearPending(W1)
         ELSE W1
    ELSE IF S.r.isRecording /\ ~S.p.isRecovering
    THEN LET W1 == enqueuePending(W, m) IN
         IF S.h.state # "connecting"
         THEN LET W2 == [W1 EXCEPT !.p.isRecovering = TRUE,
                                   !.p.wasRecordingBeforeDisconnect = TRUE,
                                   !.p.recoveryAttempts = @ + 1] IN
              IF S.p.recoveryAttempts < MaxRecoveryAttempts
              THEN [W2 EXCEPT !.p.recoveryTimers =
                        Append(@, RecoveryDelay(S.p.recoveryAttempts))]
              ELSE stopRecording(
                      [clearPending(W2) EXCEPT
                           !.p.isRecovering = FALSE,
                           !.p.wasRecordingBeforeDisconnect = FALSE,
                           !.p.recoveryFailed = @ + 1],
                      S, id, fail)
         ELSE W1
    ELSE W

----------------------------------------------------------------------------
(* HomePage: the handlers of the recording controls *)

\* handleStartRecording, from the configuration message to the call of
\* startRecording() (which clears the complete buffer before it awaits the
\* audio device).  Its sendMessage is the one of the render of the click:
\* it holds the connection state of that render (clickState).
startBody(W, S, clickState, id, fail) ==
    LET cfg == ConfigMessage(id, W.r.take + 1)
        W1 == sendMessage([W EXCEPT !.r.take = @ + 1, !.p.lastRequest = cfg],
                          [S EXCEPT !.h.state = clickState], cfg, fail)
    IN  [updateState(W1, "initializing") EXCEPT
                   !.p.transcripts = <<>>,
                   !.p.finalTranscript = <<>>,
                   !.p.interimTranscript = <<>>,
                   !.p.bufferedTranscripts = <<>>,
                   !.p.bufferedFinalTranscript = <<>>,
                   !.p.bufferedInterimTranscript = <<>>,
                   !.p.eofSent = IF pageVariant = "current" THEN FALSE ELSE @,
                   !.r.completeBuffer = <<>>,
                   !.r.flushed = <<>>,
                   !.p.startPhase = "init"]

\* handleStartRecording up to its first await
handleStartRecording(W, S, id, fail) ==
    IF S.h.state # "connected"
    THEN [connect(W) EXCEPT !.p.startPhase = "wait",
                            !.p.startState = S.h.state]
    ELSE startBody(W, S, S.h.state, id, fail)

\* handleStartRecording after the wait for the connection: page.tsx goes on
\* after 1 s whatever the state; the earlier page polls the connection state
\* of the render of the click, which is not "connected", and gives up.
startAfterWait(W, S, id, fail) ==
    IF pageVariant = "current"
    THEN startBody(W, S, S.p.startState, id, fail)
    ELSE [W EXCEPT !.p.startPhase = "idle", !.p.errorToasts = @ + 1]

\* the resources initializeAudio() acquires, in the order it acquires them
AudioResources == <<"stream", "context", "source", "analyser", "processor">>

\* initializeAudio(): it acquired the first got resources when it settled
initializeAudio(W, got) ==
    [W EXCEPT !.r.held = {AudioResources[i] : i \in 1..got}]

\* startRecording whose catch rethrows without cleanup()
startRecordingNoCleanup(W, ok) ==
    IF ok
    THEN [updateState(W, "recording") EXCEPT
                   !.r.isRecording = TRUE, !.r.isPaused = FALSE,
                   !.r.intervalTimer = TRUE, !.p.startPhase = "idle"]
    ELSE [updateState(W, "error") EXCEPT
                   !.p.startPhase = "idle", !.p.errorToasts = @ + 1]

\* startRecording() of useAudioRecorder after initializeAudio(); ok: the
\* audio device was acquired
startRecording(W, ok) ==
    IF ok
    THEN [updateState(W, "recording") EXCEPT
                   !.r.isRecording = TRUE, !.r.isPaused = FALSE,
                   !.r.intervalTimer = TRUE, !.p.startPhase = "idle"]
    ELSE [cleanup(updateState(W, "error")) EXCEPT
                   !.p.startPhase = "idle", !.p.errorToasts = @ + 1]

\* handleStopRecording; id: the id of the final interval audio, id + 1 the
\* id of the EOF message; failFlush, failEof: their send() throws
handleStopRecording(W, S, id, failFlush, failEof) ==
    LET W1 == stopRecording(W, S, id, failFlush)
        W2 == [clearPending(W1) EXCEPT
                         !.p.isRecovering = FALSE,
                         !.p.recoveryAttempts = 0,
                         !.p.wasRecordingBeforeDisconnect = FALSE,
                         !.p.bufferedTranscripts = <<>>,
                         !.p.bufferedFinalTranscript = <<>>,
                         !.p.bufferedInterimTranscript = <<>>]
        eof == EofMessage(id + 1, W.r.take)
    IN  IF S.h.state = "connected" /\ (pageVariant = "earlier" \/ ~S.p.eofSent)
        THEN LET W3 == sendMessage([W2 EXCEPT !.p.lastRequest = eof],
                                   S, eof, failEof)
             IN  IF pageVariant = "current"
                 THEN [W3 EXCEPT !.p.eofSent = TRUE] ELSE W3
        ELSE W2

----------------------------------------------------------------------------
(* HomePage: the file upload *)

\* the messages of the n-th upload carry the negative take -n
UploadTake(n) == 0 - n

\* the file as the content of one audio message
FileContent == <<0>>

\* processUploadedFile, from the configuration message to the await of
\* selectedFile.arrayBuffer().  Its sendMessage is the one of the render of
\* the click: it holds the connection state of that render (clickState).
uploadConfig(W, S, clickState, n, id, fail) ==
    LET cfg == ConfigMessage(id, UploadTake(n))
        W1 == [W EXCEPT !.p.lastRequest = cfg, !.p.hasActiveRequest = TRUE]
        W2 == sendMessage(W1, [S EXCEPT !.h.state = clickState], cfg, fail)
    IN  [W2 EXCEPT !.p.uploadPhase = "read"]

\* processUploadedFile up to its first await; n: the number of the upload
processUploadedFile(W, S, n, id, fail) ==
    LET W1 == [W EXCEPT !.p.isProcessing = TRUE,
                        !.p.transcripts = <<>>,
                        !.p.finalTranscript = <<>>,
                        !.p.isSendingFile = TRUE]
    IN  IF S.h.state = "connected"
        THEN uploadConfig(W1, S, S.h.state, n, id, fail)
        ELSE IF pageVariant = "current"
        THEN [connect(W1) EXCEPT !.p.uploadPhase = "wait",
                                 !.p.uploadState = S.h.state]
        ELSE [W EXCEPT !.p.errorToasts = @ + 1]

\* processUploadedFile after the 1 s wait for the connection (page.tsx)
uploadAfterWait(W, S, n, id, fail) ==
    uploadConfig(W, S, S.p.uploadState, n, id, fail)

\* processUploadedFile after selectedFile.arrayBuffer(); ok: the file was
\* read.  id is the id of the audio message, id + 1 the id of the EOF message.
uploadFile(W, S, ok, n, id, failAudio, failEof) ==
    LET click == [S EXCEPT !.h.state = S.p.uploadState]
        audio == Message(id, "audio", FileContent, UploadTake(n))
        eof == EofMessage(id + 1, UploadTake(n))
        W1 == sendMessage([W EXCEPT !.p.lastRequest = audio,
                                    !.p.hasActiveRequest = TRUE],
                          click, audio, failAudio)
        W2 == sendMessage([W1 EXCEPT !.p.lastRequest = eof], click, eof,
                          failEof)
    IN  IF ~ok
        THEN [W EXCEPT !.p.errorToasts = @ + 1,
                       !.p.isProcessing = FALSE,
                       !.p.isSendingFile = FALSE,
                       !.p.uploadPhase = "idle"]
        ELSE IF pageVariant = "current"
        THEN [W2 EXCEPT !.p.isSendingFile = FALSE,
                        !.p.isProcessing = FALSE,
                        !.p.uploadPhase = "idle"]
        ELSE [W2 EXCEPT !.p.uploadPhase = "idle"]

----------------------------------------------------------------------------
(* HomePage: the callbacks handed to useWebSocket *)

\* onConnect; id: the id of the configuration message built
onConnect(W, S, id, fail) ==
    IF S.p.wasRecordingBeforeDisconnect /\ S.r.isRecording
    THEN LET cfg == ConfigMessage(id, W.r.take)
             W1 == sendMessage([W EXCEPT !.p.lastRequest = cfg], S, cfg, fail)
             W2 == IF Len(S.p.pendingChunks) > 0
                   THEN [clearPending(W1) EXCEPT
                            !.p.drain = Append(@, S.p.pendingChunks),
                            !.p.drained = IF W1.p.overflowed
                                          THEN S.p.pendingChunks ELSE @]
                   ELSE W1
             W3 == [W2 EXCEPT !.p.isRecovering = FALSE,
                              !.p.recoveryAttempts = 0]
         IN  IF Len(S.p.bufferedTranscripts) > 0
             THEN [W3 EXCEPT
                     !.p.transcripts = S.p.bufferedTranscripts,
                     !.p.finalTranscript = S.p.bufferedFinalTranscript,
                     !.p.interimTranscript = S.p.bufferedInterimTranscript]
             ELSE W3
    ELSE W

\* onDisconnect; id: the id of the interval audio a forced stop flushes
onDisconnect(W, S, id, fail) ==
    LET W1 == IF pageVariant = "current"
              THEN [W EXCEPT !.p.eofSent = FALSE] ELSE W
    IN
    IF /\ S.p.isSendingFile /\ S.p.hasActiveRequest
       /\ S.p.lastRequest # NoRequest /\ ~S.p.isRetrying
    THEN [W1 EXCEPT !.p.isRetrying = TRUE]
    ELSE IF S.r.isRecording /\ S.p.wasRecordingBeforeDisconnect
    THEN LET W2 == [W1 EXCEPT !.p.recoveryAttempts = @ + 1] IN
         IF S.p.recoveryAttempts < MaxRecoveryAttempts
         THEN W2
         ELSE stopRecording(
                 [W2 EXCEPT !.p.isRecovering = FALSE,
                            !.p.wasRecordingBeforeDisconnect = FALSE,
                            !.p.recoveryFailed = @ + 1],
                 S, id, fail)
    ELSE W1

\* handleWebSocketMessage without setIsProcessing(false) on an error payload
handleWebSocketMessageKeepProcessing(W, S, msg) ==
    IF msg.type = "eof"
    THEN [W EXCEPT !.p.isProcessing = FALSE,
                   !.p.hasActiveRequest = FALSE,
                   !.p.isSendingFile = FALSE]
    ELSE IF msg.type = "result"
    THEN IF msg.isFinal
         THEN IF S.p.isRecovering /\ S.p.wasRecordingBeforeDisconnect
              THEN [W EXCEPT !.p.bufferedFinalTranscript =
                                  appendTranscript(@, msg.text),
                             !.p.bufferedTranscripts = Append(@, msg.text)]
              ELSE [W EXCEPT !.p.finalTranscript =
                                  appendTranscript(@, msg.text),
                             !.p.interimTranscript = <<>>,
                             !.p.transcripts = Append(@, msg.text)]
         ELSE IF S.p.isRecovering /\ S.p.wasRecordingBeforeDisconnect
              THEN [W EXCEPT !.p.bufferedInterimTranscript = StrOf(msg.text)]
              ELSE [W EXCEPT !.p.interimTranscript = StrOf(msg.text)]
    ELSE IF msg.type = "error"
    THEN IF msg.deadline
         THEN IF ~S.p.isRetrying
              THEN [W EXCEPT !.p.isRetrying = TRUE] ELSE W
         ELSE [W EXCEPT !.p.errorToasts = @ + 1,
                        !.p.hasActiveRequest = FALSE,
                        !.p.isSendingFile = FALSE]
    ELSE W

\* handleWebSocketMessage without setInterimTranscript("") on a final result
handleWebSocketMessageKeepInterim(W, S, msg) ==
    IF msg.type = "eof"
    THEN [W EXCEPT !.p.isProcessing = FALSE,
                   !.p.hasActiveRequest = FALSE,
                   !.p.isSendingFile = FALSE]
    ELSE IF msg.type = "result"
    THEN IF msg.isFinal
         THEN IF S.p.isRecovering /\ S.p.wasRecordingBeforeDisconnect
              THEN [W EXCEPT !.p.bufferedFinalTranscript =
                                  appendTranscript(@, msg.text),
                             !.p.bufferedTranscripts = Append(@, msg.text)]
              ELSE [W EXCEPT !.p.finalTranscript =
                                  appendTranscript(@, msg.text),
                             !.p.transcripts = Append(@, msg.text)]
         ELSE IF S.p.isRecovering /\ S.p.wasRecordingBeforeDisconnect
              THEN [W EXCEPT !.p.bufferedInterimTranscript = StrOf(msg.text)]
              ELSE [W EXCEPT !.p.interimTranscript = StrOf(msg.text)]
    ELSE IF msg.type = "error"
    THEN IF msg.deadline
         THEN IF ~S.p.isRetrying
              THEN [W EXCEPT !.p.isRetrying = TRUE] ELSE W
         ELSE [W EXCEPT !.p.errorToasts = @ + 1,
                        !.p.isProcessing = FALSE,
                        !.p.hasActiveRequest = FALSE,
                        !.p.isSendingFile = FALSE]
    ELSE W

\* handleWebSocketMessage(message)
handleWebSocketMessage(W, S, msg) ==
    IF msg.type = "eof"
    THEN [W EXCEPT !.p.isProcessing = FALSE,
                   !.p.hasActiveRequest = FALSE,
                   !.p.isSendingFile = FALSE]
    ELSE IF msg.type = "result"
    THEN IF msg.isFinal
         THEN IF S.p.isRecovering /\ S.p.wasRecordingBeforeDisconnect
              THEN [W EXCEPT !.p.bufferedFinalTranscript =
                                  appendTranscript(@, msg.text),
                             !.p.bufferedTranscripts = Append(@, msg.text)]
              ELSE [W EXCEPT !.p.finalTranscript =
                                  appendTranscript(@, msg.text),
                             !.p.interimTranscript = <<>>,
                             !.p.transcripts = Append(@, msg.text)]
         ELSE IF S.p.isRecovering /\ S.p.wasRecordingBeforeDisconnect
              THEN [W EXCEPT !.p.bufferedInterimTranscript = StrOf(msg.text)]
              ELSE [W EXCEPT !.p.interimTranscript = StrOf(msg.text)]
    ELSE IF msg.type = "error"
    THEN IF msg.deadline
         THEN IF ~S.p.isRetrying
              THEN [W EXCEPT !.p.isRetrying = TRUE] ELSE W
         ELSE [W EXCEPT !.p.errorToasts = @ + 1,
                        !.p.isProcessing = FALSE,
                        !.p.hasActiveRequest = FALSE,
                        !.p.isSendingFile = FALSE]
    ELSE W

----------------------------------------------------------------------------
(* useWebSocket: the handlers of the transport's events *)

\* handleOpen, then the "open" listener that sends the auth frame (auto)
handleOpen(W, S, fails, id, fail) ==
    LET W1 == [W EXCEPT !.h.reconnectCount = 0,
                        !.h.state = "connected",
                        !.h.attempts = 0,
                        !.h.delays = <<>>]
        W2 == processMessageQueue(W1, fails)
        W3 == onConnect(W2, S, id, fail)
    IN  IF variant = "auto"
        THEN [W3 EXCEPT !.h.wire =
                  Append(@, Frame(Message(0, "auth", <<>>, 0), W.h.gen))]
        ELSE W3

\* handleError
handleError(W) ==
    [W EXCEPT !.h.state = "error", !.h.hasError = TRUE,
              !.p.errorToasts = @ + 1]

\* handleClose reporting an error for every close code
handleCloseAlwaysError(W, S, code, id, fail) ==
    LET W1 == clearTimeouts(W)
        W2 == [W1 EXCEPT !.h.state = "disconnected",
                         !.h.hasError = TRUE]
        W3 == onDisconnect(W2, S, id, fail)
    IN  IF /\ variant = "auto"
           /\ ~W3.h.manual
           /\ W3.h.reconnectCount < ReconnectAttempts
        THEN [W3 EXCEPT !.h.reconnectCount = @ + 1,
                        !.h.state = "reconnecting",
                        !.h.attempts = W3.h.reconnectCount + 1,
                        !.h.timer = ReconnectDelay(W3.h.reconnectCount + 1),
                        !.h.delays =
                            Append(@, ReconnectDelay(W3.h.reconnectCount + 1))]
        ELSE W3

\* a handleClose that schedules the reconnect in both variants
handleCloseReconnecting(W, S, code, id, fail) ==
    LET W1 == clearTimeouts(W)
        W2 == [W1 EXCEPT !.h.state = "disconnected",
                         !.h.hasError = IF code # NormalClosure THEN TRUE ELSE @]
        W3 == onDisconnect(W2, S, id, fail)
    IN  IF /\ ~W3.h.manual
           /\ W3.h.reconnectCount < ReconnectAttempts
        THEN [W3 EXCEPT !.h.reconnectCount = @ + 1,
                        !.h.state = "reconnecting",
                        !.h.attempts = W3.h.reconnectCount + 1,
                        !.h.timer = ReconnectDelay(W3.h.reconnectCount + 1),
                        !.h.delays =
                            Append(@, ReconnectDelay(W3.h.reconnectCount + 1))]
        ELSE W3

\* handleClose(event); code: event.code
handleClose(W, S, code, id, fail) ==
    LET W1 == clearTimeouts(W)
        W2 == [W1 EXCEPT !.h.state = "disconnected",
                         !.h.hasError = IF code # NormalClosure THEN TRUE ELSE @]
        W3 == onDisconnect(W2, S, id, fail)
    IN  IF /\ variant = "auto"
           /\ ~W3.h.manual
           /\ W3.h.reconnectCount < ReconnectAttempts
        THEN [W3 EXCEPT !.h.reconnectCount = @ + 1,
                        !.h.state = "reconnecting",
                        !.h.attempts = W3.h.reconnectCount + 1,
                        !.h.timer = ReconnectDelay(W3.h.reconnectCount + 1),
                        !.h.delays =
                            Append(@, ReconnectDelay(W3.h.reconnectCount + 1))]
        ELSE W3

----------------------------------------------------------------------------
(* Initial state: the page is mounted, nothing is connected or recording *)

InitHook ==
    [ws |-> "NULL",            \* wsRef.current: NULL | CONNECTING | OPEN | CLOSED
     closePending |-> FALSE,   \* the error event was delivered, close follows
     gen |-> 0,                \* number of transports created so far
     state |-> "disconnected", \* connectionStatus.state
     attempts |-> 0,           \* connectionStatus.reconnectAttempts
     hasError |-> FALSE,       \* connectionStatus.error is populated
     reconnectCount |-> 0,     \* reconnectCountRef.current
     manual |-> FALSE,         \* isManuallyClosedRef.current
     queue |-> <<>>,           \* messageQueueRef.current
     timer |-> 0,              \* reconnectTimeoutRef: 0, or the delay it waits
     delays |-> <<>>,          \* the delays of the reconnect timers set since
                               \* the last open, in order
     onlineTimers |-> 0,       \* pending setTimeout(connect, 1000) of handleOnline
     stale |-> <<>>,           \* transports detached by disconnect(), not closed yet
     wire |-> <<>>]            \* the frames transmitted, in order

InitPage ==
    [errorToasts |-> 0,
     lastRequest |-> NoRequest,
     pendingChunks |-> <<>>,
     overflowed |-> FALSE,     \* slice(-50) discarded a chunk of the buffer
     drained |-> <<>>,         \* the last overflowed buffer onConnect drained
     isRecovering |-> FALSE,
     wasRecordingBeforeDisconnect |-> FALSE,
     recoveryAttempts |-> 0,
     recoveryTimers |-> <<>>,  \* pending setTimeout(connect, delay) of a recovery
     recoveryFailed |-> 0,     \* "Recovery Failed" notifications
     drain |-> <<>>,           \* pending setTimeout(sendMessage(chunk), index * 50)
     retryTimers |-> <<>>,     \* pending setTimeout(sendMessage(lastRequest), 1000)
     transcripts |-> <<>>,
     finalTranscript |-> <<>>,
     interimTranscript |-> <<>>,
     bufferedTranscripts |-> <<>>,
     bufferedFinalTranscript |-> <<>>,
     bufferedInterimTranscript |-> <<>>,
     eofSent |-> FALSE,
     isSendingFile |-> FALSE,
     hasActiveRequest |-> FALSE,
     isRetrying |-> FALSE,
     isProcessing |-> FALSE,
     lastDeadline |-> FALSE,   \* lastMessage is a DEADLINE_EXCEEDED error
     lastError |-> FALSE,      \* lastMessage carries data.error
     deadlineTimers |-> 0,     \* pending setTimeout(connect, 1000) of a deadline
     uploadPhase |-> "idle",   \* processUploadedFile: idle | wait | read
     uploadState |-> "disconnected",  \* connectionStatus.state its closure holds
     startPhase |-> "idle",    \* handleStartRecording: idle | wait | init
     startState |-> "disconnected"]  \* connectionStatus.state its closure holds

InitRec ==
    [isRecording |-> FALSE,
     isPaused |-> FALSE,
     intervalBuffer |-> <<>>,  \* intervalAudioBufferRef.current
     completeBuffer |-> <<>>,  \* completeAudioBufferRef.current
     intervalTimer |-> FALSE,  \* intervalTimerRef.current is set
     held |-> {},              \* the audio resources the refs hold
     state |-> "idle",         \* the last state told to onStateChange
     moves |-> {},             \* the changes of state told so far
     completed |-> 0,          \* onRecordingComplete notifications
     lastComplete |-> <<>>,    \* the audio of the last of them
     lastFlush |-> NoFlush,    \* the last call of onIntervalAudio
     flushed |-> <<>>,         \* all audio handed to onIntervalAudio since
                               \* startRecording() was called
     take |-> 0]               \* recordings started so far

InitEnv ==
    [nextId |-> 1,     \* id of the next message built
     sends |-> 0,      \* sendMessage calls of a direct caller
     fails |-> 0,      \* send() calls that threw
     calls |-> 0,      \* disconnect() calls
     online |-> 0,     \* "online" events
     chunks |-> 0,     \* audio chunks captured
     results |-> 0,    \* backend messages delivered
     starts |-> 0,     \* handleStartRecording invocations
     uploads |-> 0,    \* processUploadedFile invocations
     malformed |-> 0,  \* frames JSON.parse rejected
     stops |-> 0]      \* handleStopRecording invocations

\* no buffer has been handed to utils/audio.ts
NoPcm == [stage |-> "none"]

Init ==
    /\ variant \in {"auto", "manual"}
    /\ pageVariant \in {"current", "earlier"}
    /\ hook = InitHook
    /\ page = InitPage
    /\ rec = InitRec
    /\ env = InitEnv
    /\ pcm = NoPcm

----------------------------------------------------------------------------
(* HomePage: the effects that run after a handler's updates are rendered *)

\* useEffect "connection lost during recording" (page.tsx only)
effectConnectionLost(W, id) ==
    IF pageVariant = "current" /\ W.h.state = "disconnected" /\ W.r.isRecording
    THEN LET W1 == stopRecording(W, W, id, FALSE) IN
         [clearPending(W1) EXCEPT
                    !.p.isRecovering = FALSE,
                    !.p.recoveryAttempts = 0,
                    !.p.wasRecordingBeforeDisconnect = FALSE,
                    !.p.bufferedTranscripts = <<>>,
                    !.p.bufferedFinalTranscript = <<>>,
                    !.p.bufferedInterimTranscript = <<>>,
                    !.p.errorToasts = @ + 1]
    ELSE W

\* what a render shows: the React state, without refs, timers and the wire
Rendered(W) ==
    <<W.h.state, W.h.attempts, W.h.hasError,
      [W.p EXCEPT !.recoveryTimers = <<>>, !.drain = <<>>, !.retryTimers = <<>>,
                  !.overflowed = FALSE, !.drained = <<>>,
                  !.deadlineTimers = 0,
                  !.uploadPhase = "idle", !.uploadState = "disconnected",
                  !.startPhase = "idle", !.startState = "disconnected"],
      W.r.isRecording, W.r.isPaused>>

\* useEffect "request retry after reconnection": it runs after every render
\* (sendMessage is a new function on each) and holds lastRequest of that render
effectRetry(W, S) ==
    IF /\ Rendered(W) # Rendered(S)
       /\ W.h.state = "connected" /\ W.p.isRetrying /\ W.p.lastRequest # NoRequest
    THEN [W EXCEPT !.p.retryTimers = Append(@, W.p.lastRequest)]
    ELSE W

\* handleDeadlineExceeded and the useEffect "DEADLINE_EXCEEDED retry logic
\* (only for file uploads)": it runs after every render (handleDeadlineExceeded
\* is a new function on each)
effectDeadline(W) ==
    IF W.p.lastDeadline /\ W.p.isSendingFile /\ ~W.p.isRetrying
    THEN [disconnect(W) EXCEPT !.p.isRetrying = TRUE,
                               !.p.deadlineTimers = @ + 1]
    ELSE W

\* useEffect "reset upload state when connection is lost during file upload"
\* (page.tsx only)
effectUploadLost(W) ==
    IF /\ pageVariant = "current" /\ W.h.state = "disconnected"
       /\ (W.p.isProcessing \/ W.p.isSendingFile)
    THEN [W EXCEPT !.p.isProcessing = FALSE,
                   !.p.isSendingFile = FALSE,
                   !.p.hasActiveRequest = FALSE,
                   !.p.errorToasts = @ + 1]
    ELSE W

\* the effects of one render, in the order of their declaration
effects(W, S, id) ==
    effectConnectionLost(
        effectUploadLost(effectRetry(effectDeadline(W), S)), id)

\* the handler built a message with this id and kept or transmitted it
UsesId(W, id) ==
    \/ \E i \in 1..Len(W.h.wire) : W.h.wire[i].id = id
    \/ \E i \in 1..Len(W.h.queue) : W.h.queue[i].id = id
    \/ \E i \in 1..Len(W.p.pendingChunks) : W.p.pendingChunks[i].id = id
    \/ W.p.lastRequest.id = id

\* a handler builds at most two messages: env.nextId and the one after it
NextIdAfter(W) ==
    IF UsesId(W, env.nextId + 1) THEN env.nextId + 2
    ELSE IF UsesId(W, env.nextId) THEN env.nextId + 1
    ELSE env.nextId

\* The limits of a scenario: transports, direct sends, failed sends, ...
Within(W, e, L) ==
    /\ W.h.gen <= L.conns
    /\ e.sends <= L.sends
    /\ e.fails <= L.fails
    /\ e.calls <= L.calls
    /\ e.online <= L.online
    /\ e.chunks <= L.chunks
    /\ e.results <= L.results
    /\ e.stops <= L.stops
    /\ e.starts <= L.starts
    /\ e.uploads <= L.uploads
    /\ e.malformed <= L.malformed
    /\ W.r.take <= L.takes
    /\ Len(W.p.retryTimers) <= L.retries

\* A handler ran to completion: its updates are rendered and the effects run
Commit(W, e, L) ==
    LET e1 == [e EXCEPT !.nextId = NextIdAfter(W)]
        W1 == effects(W, World, e1.nextId)
    IN
    /\ Within(W1, e1, L)
    /\ hook' = W1.h
    /\ page' = W1.p
    /\ rec' = W1.r
    /\ env' = e1
    /\ UNCHANGED <<variant, pageVariant, pcm>>

FailCount(fail) == IF fail THEN 1 ELSE 0

\* the sets of at most k positions of 1..n: where send() may throw in a flush
RECURSIVE FailSets(_, _)
FailSets(n, k) ==
    IF k <= 0 THEN {{}}
    ELSE LET fewer == FailSets(n, k - 1) IN
         fewer \cup {s \cup {i} : s \in fewer, i \in 1..n}

\* no event is delivered between a transport's error event and its close event
Quiet == ~hook.closePending

----------------------------------------------------------------------------
(* The callers of useWebSocket *)

\* a caller invokes sendMessage(message)
ApiSend(L) ==
    \E fail \in BOOLEAN :
        /\ Quiet
        /\ fail => hook.ws = "OPEN"
        /\ LET m == Message(env.nextId, "audio", <<>>, 0) IN
           Commit(sendMessage(World, World, m, fail),
                  [env EXCEPT !.sends = @ + 1,
                              !.fails = @ + FailCount(fail)], L)

\* a caller invokes connect()
ApiConnect(L) ==
    /\ Quiet
    /\ Commit(connect(World), env, L)

\* a caller invokes disconnect()
ApiDisconnect(L) ==
    /\ Quiet
    /\ Commit(disconnect(World), [env EXCEPT !.calls = @ + 1], L)

----------------------------------------------------------------------------
(* The events of the transport and of the timers of useWebSocket *)

\* the transport opens: onopen, then the "open" listener
TransportOpen(L) ==
    /\ Quiet
    /\ hook.ws = "CONNECTING"
    /\ \E fails \in FailSets(Len(hook.queue), L.fails - env.fails),
          fail \in BOOLEAN :
          /\ fail => page.wasRecordingBeforeDisconnect /\ rec.isRecording
          /\ Commit(handleOpen([World EXCEPT !.h.ws = "OPEN"], World,
                               fails, env.nextId, fail),
                    [env EXCEPT !.fails = @ + Cardinality(fails) + FailCount(fail)],
                    L)

\* the transport fails: onerror; its close event follows
TransportError(L) ==
    /\ Quiet
    /\ hook.ws \in {"CONNECTING", "OPEN"}
    /\ Commit(handleError([World EXCEPT !.h.ws = "CLOSED",
                                        !.h.closePending = TRUE]), env, L)

\* the transport closes: onclose, after an error or on the server's close frame
TransportClose(L) ==
    \E code \in {NormalClosure, ProxyFailure} :
        /\ \/ hook.closePending /\ code # NormalClosure
           \/ Quiet /\ hook.ws = "OPEN"
        /\ Commit(handleClose([World EXCEPT !.h.ws = "CLOSED",
                                            !.h.closePending = FALSE],
                              World, code, env.nextId, FALSE),
                  env, L)

\* a transport detached by disconnect() closes: its handlers are still bound.
\* One that was connecting fails (error, then close); an open one closes
\* normally.
StaleClose(L) ==
    /\ Quiet
    /\ Len(hook.stale) > 0
    /\ LET W0 == [World EXCEPT !.h.stale = Tail(@)]
           W1 == IF Head(hook.stale) = "CONNECTING" THEN handleError(W0) ELSE W0
           code == IF Head(hook.stale) = "CONNECTING"
                   THEN ProxyFailure ELSE NormalClosure
       IN  Commit(handleClose(W1, World, code, env.nextId, FALSE),
                  env, L)

\* the reconnect timer of handleClose fires
ReconnectTimerFire(L) ==
    /\ Quiet
    /\ hook.timer # 0
    /\ LET W0 == [World EXCEPT !.h.timer = 0] IN
       Commit(IF W0.h.manual THEN W0 ELSE connect(W0), env, L)

\* window "online": handleOnline (auto variant)
Online(L) ==
    /\ Quiet
    /\ variant = "auto"
    /\ hook.state = "disconnected" /\ ~hook.manual
    /\ Commit([World EXCEPT !.h.onlineTimers = @ + 1],
              [env EXCEPT !.online = @ + 1], L)

\* the setTimeout(() => connect(), 1000) of handleOnline fires
OnlineTimerFire(L) ==
    /\ Quiet
    /\ hook.onlineTimers > 0
    /\ Commit(connect([World EXCEPT !.h.onlineTimers = @ - 1]), env, L)

----------------------------------------------------------------------------
(* The hook driven by its callers alone *)

NoPage ==
    [conns |-> 0, sends |-> 0, fails |-> 0, calls |-> 0, online |-> 0,
     chunks |-> 0, results |-> 0, starts |-> 0, takes |-> 0, stops |-> 0,
     retries |-> 0, uploads |-> 0, malformed |-> 0]

LimWS ==
    [NoPage EXCEPT !.conns = MaxConns, !.sends = MaxSends, !.fails = MaxFails,
                   !.calls = MaxDisconnects, !.online = MaxOnline]

InitWS == Init /\ pageVariant = "current"

NextWS ==
    \/ ApiSend(LimWS)
    \/ ApiConnect(LimWS)
    \/ ApiDisconnect(LimWS)
    \/ TransportOpen(LimWS)
    \/ TransportError(LimWS)
    \/ TransportClose(LimWS)
    \/ StaleClose(LimWS)
    \/ ReconnectTimerFire(LimWS)
    \/ Online(LimWS)
    \/ OnlineTimerFire(LimWS)

SpecWS == InitWS /\ [][NextWS]_vars

----------------------------------------------------------------------------
(* The reconnect scenario: the auto variant, one message (its send connects *)
(* the client), up to MaxBackoffConns transports                            *)

LimBackoff ==
    [NoPage EXCEPT !.conns = MaxBackoffConns, !.sends = 1, !.online = MaxOnline]

InitBackoff == InitWS /\ variant = "auto"

NextBackoff ==
    \/ ApiSend(LimBackoff)
    \/ TransportOpen(LimBackoff)
    \/ TransportError(LimBackoff)
    \/ TransportClose(LimBackoff)
    \/ ReconnectTimerFire(LimBackoff)
    \/ Online(LimBackoff)
    \/ OnlineTimerFire(LimBackoff)

SpecBackoff == InitBackoff /\ [][NextBackoff]_vars

\* the close event of a transport detached by disconnect() is handled
StaleDelivered == Len(hook'.stale) < Len(hook.stale)

\* C34: the close event of a superseded transport leaves the state of the
\* new connection and its reconnect timer as they were, and an open
\* transport is always reported as connected.
C34_StaleCloseIgnored ==
    [][/\ (StaleDelivered /\ hook.ws \in {"CONNECTING", "OPEN"}) =>
              /\ hook'.state = hook.state
              /\ hook'.timer = hook.timer
       /\ hook'.ws = "OPEN" => hook'.state = "connected"]_vars

\* an event of a transport or of a timer of the hook is due: one of
\* TransportOpen, TransportError, TransportClose, StaleClose,
\* ReconnectTimerFire and OnlineTimerFire can happen
EventDue ==
    \/ hook.closePending
    \/ hook.ws \in {"CONNECTING", "OPEN"}
    \/ Len(hook.stale) > 0
    \/ hook.timer # 0
    \/ hook.onlineTimers > 0

\* C38: in the auto variant a message waiting in the queue is never left
\* without a transport or timer event that is still to come, so that it is
\* transmitted in the end unless disconnect() discards it.
C38_QueuedIsCarried ==
    (variant = "auto" /\ Len(hook.queue) > 0) => EventDue

\* C31: with message-based authentication the first frame a transport
\* carries is the auth frame.
C31_AuthFirst ==
    variant = "auto" =>
        \A i \in 1..Len(hook.wire) :
            (\A j \in 1..(i - 1) : hook.wire[j].gen # hook.wire[i].gen)
                => hook.wire[i].kind = "auth"

\* a user-visible error notification is raised
ErrorSurfaced == page'.errorToasts > page.errorToasts

\* C29: with automatic reconnection a transport error raises a user-visible
\* error notification only once the retry budget is used up.
C29_ErrorsAfterBudget ==
    [][ErrorSurfaced => hook.reconnectCount >= ReconnectAttempts]_vars

(* The flood scenario: FloodSends messages, one transport, no failure *)

LimFlood == [NoPage EXCEPT !.conns = 1, !.sends = FloodSends]

NextFlood ==
    \/ ApiSend(LimFlood)
    \/ ApiConnect(LimFlood)
    \/ TransportOpen(LimFlood)

SpecFlood == InitWS /\ [][NextFlood]_vars

----------------------------------------------------------------------------
(* Claims on useWebSocket *)

\* C1: the pending queue of the Session Protocol Client never holds more than
\* 50 messages, whatever sequence of send(), open, close and connect() events.
C1_QueueBounded == Len(hook.queue) <= PendingCap

\* the request frames on the wire: every frame but the auth frames
IsRequest(f) == f.kind # "auth"

\* C3: the request frames on the wire appear in the order of the send() calls
\* that produced them (a caller's messages carry increasing ids), whether they
\* passed through the pending queue or were re-queued after a failed flush.
C3_WireOrder ==
    \A i, j \in 1..Len(hook.wire) :
        (i < j /\ IsRequest(hook.wire[i]) /\ IsRequest(hook.wire[j]))
            => hook.wire[i].id < hook.wire[j].id

\* the retry budget is used up and the last attempt has failed: the close
\* event of the 5th reconnect attempt has been handled
Exhausted ==
    /\ variant = "auto"
    /\ hook.reconnectCount = ReconnectAttempts
    /\ Len(hook.delays) = ReconnectAttempts
    /\ hook.ws = "CLOSED" /\ ~hook.closePending
    /\ hook.timer = 0

\* C9: after 5 failed reconnect attempts no 6th attempt is pending and the
\* connection state is the terminal state error.
C9_ExhaustedIsError ==
    Exhausted => (hook.onlineTimers = 0 /\ hook.state = "error")

\* the delay the claim states for attempt n: base 1 s, doubling, capped at 30 s
ClaimedDelay(n) == Min(1000 * Pow(2, n - 1), MaxReconnectDelay) * DelayScale

C11_NoAutoReconnect ==
    [][variant = "manual" =>
        /\ hook'.timer = 0 /\ hook'.onlineTimers = 0
        /\ hook'.state # "reconnecting"
        /\ (hook.ws = "CLOSED" /\ ~hook.closePending) =>
              \/ hook'.gen = hook.gen /\ hook'.state = "disconnected"
              \/ hook' = connect(World).h /\ env' = env]_vars

\* C11 witness: the server closed the transport of the variant without
\* automatic reconnection, with a message still queued
C11_Witness ==
    /\ variant = "manual"
    /\ hook.ws = "CLOSED" /\ ~hook.closePending
    /\ hook.state = "disconnected" /\ Len(hook.queue) > 0

\* C12: disconnect() leaves the queue empty and the state disconnected, and
\* from then on (the closure is marked manual until connect() runs) no new
\* transport is opened, the state stays disconnected and no reconnect timer
\* is set, except by a caller's connect() or by the connect of a caller's
\* send.
C12_DisconnectIsTerminal ==
    [][/\ env'.calls # env.calls =>
              /\ hook'.queue = <<>>
              /\ hook'.state = "disconnected"
              /\ hook'.timer = 0
       /\ hook.manual =>
              \/ /\ hook'.gen = hook.gen
                 /\ hook'.state = "disconnected"
                 /\ hook'.timer = 0
              \/ env'.sends # env.sends
              \/ hook' = connect(World).h /\ env' = env]_vars

\* C13: connect() on an open or connecting transport changes nothing: no
\* second transport, the same connection state, queue and retry counter.
C13_ConnectNoOp ==
    hook.ws \in {"OPEN", "CONNECTING"} => connect(World) = World

\* C13 witness: a reconnect attempt is connecting with a message queued and a
\* non-zero retry counter
C13_Witness ==
    /\ hook.ws = "CONNECTING"
    /\ hook.reconnectCount > 0 /\ Len(hook.queue) > 0

\* the requests of the frames
Requests(frames) ==
    [i \in 1..Len(frames) |->
        Message(frames[i].id, frames[i].kind, frames[i].chunks, frames[i].take)]

\* the frames the step put on the wire
Transmitted == SubSeq(hook'.wire, Len(hook.wire) + 1, Len(hook'.wire))

\* C14: when the transport opens, the state becomes connected, the retry
\* counter is 0, the queue is empty and the messages that were queued have
\* been transmitted on the new transport in the order of the queue.
C14_OpenFlushes ==
    [][(hook.ws = "CONNECTING" /\ hook'.ws = "OPEN") =>
        /\ hook'.state = "connected"
        /\ hook'.reconnectCount = 0 /\ hook'.attempts = 0
        /\ hook'.queue = <<>>
        /\ Len(Transmitted) >= Len(hook.queue)
        /\ Requests(SubSeq(Transmitted, 1, Len(hook.queue))) = hook.queue]_vars

\* the close codes of the transport
CloseCodes == {NormalClosure, ProxyFailure}

\* the connection after handleClose for a close event with this code
AfterClose(code) ==
    handleClose([World EXCEPT !.h.ws = "CLOSED", !.h.closePending = FALSE],
                World, code, env.nextId, FALSE).h

\* a close event can be delivered
Closable == hook.ws = "OPEN" \/ hook.closePending

\* C27: a close event with code 1000 does not populate the error, any other
\* code populates it, and the state becomes disconnected.
C27_CloseCodes ==
    Closable =>
        \A code \in CloseCodes :
            /\ code = NormalClosure => AfterClose(code).hasError = hook.hasError
            /\ code # NormalClosure => AfterClose(code).hasError
            /\ AfterClose(code).state = "disconnected"

\* C27, amended: the state becomes disconnected, or reconnecting when the
\* close schedules an automatic reconnection.
C27_CloseCodesReconnecting ==
    Closable =>
        \A code \in CloseCodes :
            /\ code = NormalClosure => AfterClose(code).hasError = hook.hasError
            /\ code # NormalClosure => AfterClose(code).hasError
            /\ AfterClose(code).state =
                  IF AfterClose(code).timer > 0
                  THEN "reconnecting" ELSE "disconnected"

\* an open transport was closed normally: no error, a reconnection scheduled
C27_Witness ==
    /\ hook.ws = "CLOSED" /\ ~hook.closePending /\ ~hook.hasError
    /\ hook.state = "reconnecting" /\ hook.timer > 0

----------------------------------------------------------------------------
(* The events of the page: the recording controls, the recorder, the timers *)
(* and the backend                                                          *)

\* the failure of send() is an event only where the handler reaches send()
Fails(fail, Wfail, Wok) == fail => Wfail # Wok

\* click on the record button (shown while not recording)
StartClick(L) ==
    /\ Quiet
    /\ ~rec.isRecording /\ page.startPhase = "idle"
    /\ \E fail \in BOOLEAN :
          /\ Fails(fail, handleStartRecording(World, World, env.nextId, TRUE),
                         handleStartRecording(World, World, env.nextId, FALSE))
          /\ Commit(handleStartRecording(World, World, env.nextId, fail),
                    [env EXCEPT !.starts = @ + 1,
                                !.fails = @ + FailCount(fail)], L)

\* the wait of handleStartRecording for the connection is over
StartContinue(L) ==
    /\ Quiet
    /\ page.startPhase = "wait"
    /\ \E fail \in BOOLEAN :
          /\ Fails(fail, startAfterWait(World, World, env.nextId, TRUE),
                         startAfterWait(World, World, env.nextId, FALSE))
          /\ Commit(startAfterWait(World, World, env.nextId, fail),
                    [env EXCEPT !.fails = @ + FailCount(fail)], L)

\* initializeAudio() settles: the recording starts, or the device is refused
StartComplete(L) ==
    /\ Quiet
    /\ page.startPhase = "init"
    /\ \E ok \in BOOLEAN, got \in 0..Len(AudioResources) :
          /\ ok => got = Len(AudioResources)
          /\ Commit(startRecording(initializeAudio(World, got), ok), env, L)

\* click on the stop button (shown while recording)
StopClick(L) ==
    /\ Quiet
    /\ rec.isRecording
    /\ \E failFlush, failEof \in BOOLEAN :
          /\ Fails(failFlush,
                   handleStopRecording(World, World, env.nextId, TRUE, failEof),
                   handleStopRecording(World, World, env.nextId, FALSE, failEof))
          /\ Fails(failEof,
                   handleStopRecording(World, World, env.nextId, failFlush, TRUE),
                   handleStopRecording(World, World, env.nextId, failFlush, FALSE))
          /\ Commit(handleStopRecording(World, World, env.nextId,
                                        failFlush, failEof),
                    [env EXCEPT !.stops = @ + 1,
                                !.fails = @ + FailCount(failFlush)
                                            + FailCount(failEof)], L)

\* onaudioprocess: processAudioChunk buffers the chunk and hands it to the page
AudioProcess(L) ==
    /\ Quiet
    /\ rec.isRecording /\ ~rec.isPaused
    /\ LET c == env.chunks + 1
           W0 == [World EXCEPT !.r.completeBuffer = Append(@, c),
                               !.r.intervalBuffer = Append(@, c)]
       IN  \E fail \in BOOLEAN :
              /\ Fails(fail, handleAudioChunk(W0, World, c, env.nextId, TRUE),
                             handleAudioChunk(W0, World, c, env.nextId, FALSE))
              /\ Commit(handleAudioChunk(W0, World, c, env.nextId, fail),
                        [env EXCEPT !.chunks = @ + 1,
                                    !.fails = @ + FailCount(fail)], L)

\* the interval timer of the recorder fires
IntervalTick(L) ==
    /\ Quiet
    /\ rec.intervalTimer /\ rec.isRecording /\ ~rec.isPaused
    /\ Len(rec.intervalBuffer) > 0
    /\ \E fail \in BOOLEAN :
          /\ Fails(fail,
                   sendIntervalAudio(World, World, env.nextId, TRUE, "interval"),
                   sendIntervalAudio(World, World, env.nextId, FALSE, "interval"))
          /\ Commit(sendIntervalAudio(World, World, env.nextId, fail, "interval"),
                    [env EXCEPT !.fails = @ + FailCount(fail)], L)

\* the sequence without its i-th element
Without(seq, i) == SubSeq(seq, 1, i - 1) \o SubSeq(seq, i + 1, Len(seq))

\* a setTimeout(() => connect(), delay) of a recovery fires
RecoveryTimerFire(L) ==
    /\ Quiet
    /\ \E i \in 1..Len(page.recoveryTimers) :
          Commit(connect([World EXCEPT !.p.recoveryTimers = Without(@, i)]),
                 env, L)

\* the next setTimeout(() => sendMessage(chunk), index * 50) of a drain fires:
\* the timers of one onConnect fire in the order of their delays
DrainTimerFire(L) ==
    /\ Quiet
    /\ \E i \in 1..Len(page.drain), fail \in BOOLEAN :
          LET chunk == Head(page.drain[i])
              W0 == [World EXCEPT !.p.drain =
                        IF Len(page.drain[i]) = 1
                        THEN Without(@, i)
                        ELSE [@ EXCEPT ![i] = Tail(@)]]
          IN  /\ Fails(fail, sendMessage(W0, World, chunk, TRUE),
                             sendMessage(W0, World, chunk, FALSE))
              /\ Commit(sendMessage(W0, World, chunk, fail),
                        [env EXCEPT !.fails = @ + FailCount(fail)], L)

\* a setTimeout of the retry effect fires: sendMessage(lastRequest) with the
\* lastRequest of its render, setIsRetrying(false)
RetryTimerFire(L) ==
    /\ Quiet
    /\ \E i \in 1..Len(page.retryTimers), fail \in BOOLEAN :
          LET W0 == [World EXCEPT !.p.retryTimers = Without(@, i),
                                  !.p.isRetrying = FALSE]
              m == page.retryTimers[i]
          IN  /\ Fails(fail, sendMessage(W0, World, m, TRUE),
                             sendMessage(W0, World, m, FALSE))
              /\ Commit(sendMessage(W0, World, m, fail),
                        [env EXCEPT !.fails = @ + FailCount(fail)], L)

\* the backend messages of the model: final and interim results, and the
\* DEADLINE_EXCEEDED error
Backend ==
    {[type |-> "result", isFinal |-> TRUE, text |-> "A", deadline |-> FALSE],
     [type |-> "result", isFinal |-> TRUE, text |-> "B", deadline |-> FALSE],
     [type |-> "result", isFinal |-> FALSE, text |-> "a", deadline |-> FALSE],
     [type |-> "error", isFinal |-> FALSE, text |-> "", deadline |-> TRUE]}

\* handleMessage: setLastMessage(message), then onMessage(message)
handleMessage(W, S, msg) ==
    handleWebSocketMessage(
        [W EXCEPT !.p.lastDeadline = (msg.type = "error" /\ msg.deadline),
                  !.p.lastError = (msg.type = "error")],
        S, msg)

\* onmessage: handleMessage hands the parsed message to the page
TransportMessage(L) ==
    /\ Quiet
    /\ hook.ws = "OPEN"
    /\ \E msg \in Backend :
          Commit(handleMessage(World, World, msg),
                 [env EXCEPT !.results = @ + 1], L)

\* the EOF acknowledgement of the backend
EofAck == [type |-> "eof", isFinal |-> FALSE, text |-> "", deadline |-> FALSE]

\* onmessage with the EOF acknowledgement
TransportAck(L) ==
    /\ Quiet
    /\ hook.ws = "OPEN"
    /\ Commit(handleMessage(World, World, EofAck),
              [env EXCEPT !.results = @ + 1], L)

\* onError of the page: the toast "Connection Error"
onError(W) == [W EXCEPT !.p.errorToasts = @ + 1]

\* handleMessage reporting a malformed frame as a transport error
handleMessageFatal(W) == handleError(W)

\* handleMessage on a frame that JSON.parse rejects: the catch reports the
\* parse error to onError; setLastMessage and onMessage are not reached
handleMessageMalformed(W) == onError(W)

\* onmessage with a malformed frame
TransportMalformed(L) ==
    /\ Quiet
    /\ hook.ws = "OPEN"
    /\ Commit(handleMessageMalformed(World),
              [env EXCEPT !.malformed = @ + 1], L)

\* an error payload of the backend other than DEADLINE_EXCEEDED
BackendError ==
    [type |-> "error", isFinal |-> FALSE, text |-> "", deadline |-> FALSE]

\* onmessage with an error payload
TransportFault(L) ==
    /\ Quiet
    /\ hook.ws = "OPEN"
    /\ Commit(handleMessage(World, World, BackendError),
              [env EXCEPT !.results = @ + 1], L)

\* click on the upload button (disabled while isProcessing)
UploadClick(L) ==
    /\ Quiet
    /\ ~page.isProcessing /\ page.uploadPhase = "idle"
    /\ \E fail \in BOOLEAN :
          LET n == env.uploads + 1 IN
          /\ Fails(fail, processUploadedFile(World, World, n, env.nextId, TRUE),
                         processUploadedFile(World, World, n, env.nextId, FALSE))
          /\ Commit(processUploadedFile(World, World, n, env.nextId, fail),
                    [env EXCEPT !.uploads = @ + 1,
                                !.fails = @ + FailCount(fail)], L)

\* the 1 s wait of processUploadedFile for the connection is over
UploadContinue(L) ==
    /\ Quiet
    /\ page.uploadPhase = "wait"
    /\ \E fail \in BOOLEAN :
          LET n == env.uploads IN
          /\ Fails(fail, uploadAfterWait(World, World, n, env.nextId, TRUE),
                         uploadAfterWait(World, World, n, env.nextId, FALSE))
          /\ Commit(uploadAfterWait(World, World, n, env.nextId, fail),
                    [env EXCEPT !.fails = @ + FailCount(fail)], L)

\* selectedFile.arrayBuffer() settles: the file is sent, or reading it failed
UploadRead(L) ==
    /\ Quiet
    /\ page.uploadPhase = "read"
    /\ \E ok, failAudio, failEof \in BOOLEAN :
          LET n == env.uploads
              done(fa, fe) == uploadFile(World, World, ok, n, env.nextId, fa, fe)
          IN  /\ Fails(failAudio, done(TRUE, failEof), done(FALSE, failEof))
              /\ Fails(failEof, done(failAudio, TRUE), done(failAudio, FALSE))
              /\ Commit(done(failAudio, failEof),
                        [env EXCEPT !.fails = @ + FailCount(failAudio)
                                                + FailCount(failEof)], L)

\* click on the Connect button of the earlier page (shown while the state is
\* disconnected or error)
ConnectClick(L) ==
    /\ Quiet
    /\ pageVariant = "earlier"
    /\ hook.state \in {"disconnected", "error"}
    /\ Commit(connect(World), env, L)

\* the setTimeout(() => connect(), 1000) of handleDeadlineExceeded fires
DeadlineTimerFire(L) ==
    /\ Quiet
    /\ page.deadlineTimers > 0
    /\ Commit(connect([World EXCEPT !.p.deadlineTimers = @ - 1]), env, L)

----------------------------------------------------------------------------
(* The page: a live recording over the hook *)

LimPage ==
    [NoPage EXCEPT !.conns = MaxPageConns, !.fails = MaxPageFails,
                   !.chunks = MaxChunks, !.results = MaxResults,
                   !.stops = MaxStops, !.starts = MaxStarts,
                   !.takes = MaxTakes,
                   !.retries = MaxRetries]

Next ==
    \/ StartClick(LimPage)
    \/ StartContinue(LimPage)
    \/ StartComplete(LimPage)
    \/ StopClick(LimPage)
    \/ AudioProcess(LimPage)
    \/ IntervalTick(LimPage)
    \/ RecoveryTimerFire(LimPage)
    \/ DrainTimerFire(LimPage)
    \/ RetryTimerFire(LimPage)
    \/ TransportMessage(LimPage)
    \/ TransportOpen(LimPage)
    \/ TransportError(LimPage)
    \/ TransportClose(LimPage)
    \/ ReconnectTimerFire(LimPage)

Spec == Init /\ [][Next]_vars

----------------------------------------------------------------------------
(* Claims on the live recording *)

\* the end-of-stream frames on the wire
IsEof(f) == f.kind = "eof"

\* C4: one recording gets exactly one end-of-stream frame per connection
\* generation: the wire of page.tsx never carries two EOF frames of the same
\* recording on the same transport, however often the recording is stopped.
C4_OneEof ==
    pageVariant = "current" =>
        \A i, j \in 1..Len(hook.wire) :
            (i < j /\ IsEof(hook.wire[i]) /\ IsEof(hook.wire[j])
                   /\ hook.wire[i].take = hook.wire[j].take)
                => hook.wire[i].gen # hook.wire[j].gen

\* the transport opens again during a live recording: the recording already
\* had traffic on an earlier transport
Reconnection ==
    /\ hook.ws = "CONNECTING" /\ hook'.ws = "OPEN"
    /\ rec.isRecording /\ rec'.isRecording
    /\ \E i \in 1..Len(hook.wire) : hook.wire[i].take = rec.take

\* the frames the step put on the wire
NewFrames == SubSeq(hook'.wire, Len(hook.wire) + 1, Len(hook'.wire))

\* C5: on a successful reconnection during a live recording the configuration
\* is sent again on the new transport, the pending chunks are handed to the
\* drain in their order and leave the buffer, a non-empty shadow transcript
\* becomes the visible one, and the recovery state (isRecovering,
\* wasRecordingBeforeDisconnect, recoveryAttempts, shadow buffer) is cleared.
C5_Reconnection ==
    [][Reconnection =>
        /\ \E i \in 1..Len(NewFrames) :
              /\ NewFrames[i].kind = "config"
              /\ NewFrames[i].take = rec.take
              /\ NewFrames[i].gen = hook'.gen
        /\ page.pendingChunks # <<>> =>
              /\ page'.drain = Append(page.drain, page.pendingChunks)
              /\ page'.pendingChunks = <<>>
        /\ page.bufferedTranscripts # <<>> =>
              /\ page'.transcripts = page.bufferedTranscripts
              /\ page'.finalTranscript = page.bufferedFinalTranscript
        /\ ~page'.isRecovering
        /\ ~page'.wasRecordingBeforeDisconnect
        /\ page'.recoveryAttempts = 0
        /\ page'.bufferedTranscripts = <<>>
        /\ page'.bufferedFinalTranscript = <<>>
        /\ page'.bufferedInterimTranscript = <<>>]_vars

\* C7: while a live recording of page.tsx goes on after its connection was
\* lost (the close event was handled), wasRecordingBeforeDisconnect is marked
\* and the page is in recovery.
C7_DisconnectMarksRecovery ==
    (/\ pageVariant = "current"
     /\ rec.isRecording
     /\ hook.state \in {"disconnected", "reconnecting"})
        => (page.wasRecordingBeforeDisconnect /\ page.isRecovering)

\* the audio of a pending message
AudioOf(m) == m.chunks

\* the pending-chunk buffer holds this audio
Pending(p, audio) ==
    \E i \in 1..Len(p.pendingChunks) : AudioOf(p.pendingChunks[i]) = audio

\* C8: audio the recorder hands over while the session is not connected and
\* the recording goes on is on the pending-chunk buffer afterwards: the
\* interval audio of page.tsx, the audio chunk of the earlier page.
C8_QueuedNotDropped ==
    [][(hook.state # "connected" /\ rec.isRecording /\ rec'.isRecording) =>
        /\ (/\ pageVariant = "current"
            /\ rec.intervalBuffer # <<>> /\ rec'.intervalBuffer = <<>>)
              => Pending(page', rec.intervalBuffer)
        /\ (pageVariant = "earlier" /\ env'.chunks = env.chunks + 1)
              => Pending(page', <<env'.chunks>>)]_vars

----------------------------------------------------------------------------
(* The overflow scenario: the earlier page over the auto variant, a          *)
(* recording of FloodChunks audio chunks, up to FloodConns transports, one   *)
(* send() that throws                                                        *)

LimPageFlood ==
    [NoPage EXCEPT !.conns = FloodConns, !.starts = MaxStarts,
                   !.takes = MaxTakes, !.chunks = FloodChunks,
                   !.fails = FloodFails]

InitPageFlood == Init /\ variant = "auto" /\ pageVariant = "earlier"

\* the schedule of the scenario: the events of the transport and of the
\* connection timers fall before the first audio chunk of the recording or
\* after the chunk that overflows the buffer, and not while a drain is under
\* way
OutsideBurst ==
    /\ env.chunks = 0 \/ env.chunks > PendingCap
    /\ page.drain = <<>>

NextPageFlood ==
    \/ StartClick(LimPageFlood)
    \/ StartContinue(LimPageFlood)
    \/ StartComplete(LimPageFlood)
    \/ AudioProcess(LimPageFlood)
    \/ DrainTimerFire(LimPageFlood)
    \/ OutsideBurst /\ RecoveryTimerFire(LimPageFlood)
    \/ OutsideBurst /\ TransportOpen(LimPageFlood)
    \/ OutsideBurst /\ TransportError(LimPageFlood)
    \/ OutsideBurst /\ TransportClose(LimPageFlood)
    \/ OutsideBurst /\ ReconnectTimerFire(LimPageFlood)

SpecPageFlood == InitPageFlood /\ [][NextPageFlood]_vars

\* the ids of the chunks of the last overflowed buffer handed to the drain
DrainedIds == {page.drained[k].id : k \in 1..Len(page.drained)}

\* the frame carries a chunk of that buffer
IsDrained(f) == f.id \in DrainedIds

----------------------------------------------------------------------------
(* The merge scenario: onConnect applied to a recovery in progress.  The     *)
(* recording was started over an open transport, the transport closed, the   *)
(* next one is connecting; the page is in recovery and its shadow buffer     *)
(* holds the results handleWebSocketMessage buffered, drawn from the         *)
(* sequences of at most MaxShadow segments.                                  *)

Segments == {"A", "B"}

ShadowInputs == UNION {[1..n -> Segments] : n \in 0..MaxShadow}

\* the final results segs, then an interim result if interim, handled by
\* handleWebSocketMessage one after the other
Buffered(W, segs, interim) ==
    LET step[i \in 0..Len(segs)] ==
            IF i = 0
            THEN W
            ELSE handleWebSocketMessage(step[i - 1], step[i - 1],
                     [type |-> "result", isFinal |-> TRUE, text |-> segs[i],
                      deadline |-> FALSE])
        W1 == step[Len(segs)]
    IN  IF interim
        THEN handleWebSocketMessage(W1, W1,
                 [type |-> "result", isFinal |-> FALSE, text |-> "a",
                  deadline |-> FALSE])
        ELSE W1

\* a live recording whose transport closed and whose next transport is
\* connecting
Reconnecting ==
    LET W0 == [h |-> InitHook, p |-> InitPage, r |-> InitRec]
        W1 == connect(W0)
        W2 == handleOpen([W1 EXCEPT !.h.ws = "OPEN"], W1, {}, 1, FALSE)
        W3 == startRecording(
                  initializeAudio(startBody(W2, W2, "connected", 1, FALSE),
                                  Len(AudioResources)), TRUE)
        W4 == handleClose([W3 EXCEPT !.h.ws = "CLOSED"], W3, NormalClosure,
                          2, FALSE)
    IN  connect([W4 EXCEPT !.h.timer = 0])

\* the page in recovery
Recovering(W) ==
    [W EXCEPT !.p.isRecovering = TRUE,
              !.p.wasRecordingBeforeDisconnect = TRUE,
              !.p.recoveryAttempts = 1]

InitMerge ==
    /\ variant \in {"auto", "manual"}
    /\ pageVariant \in {"current", "earlier"}
    /\ ~(variant = "manual" /\ pageVariant = "current")
    /\ \E segs \in ShadowInputs, interim \in BOOLEAN :
          LET W == Buffered(Recovering(Reconnecting), segs, interim) IN
          /\ hook = W.h
          /\ page = W.p
          /\ rec = W.r
    /\ env = [InitEnv EXCEPT !.nextId = 2, !.starts = 1]
    /\ pcm = NoPcm

LimMerge ==
    [NoPage EXCEPT !.conns = MaxPageConns, !.chunks = MaxChunks,
                   !.results = MaxResults, !.stops = MaxStops,
                   !.starts = MaxStarts, !.takes = MaxTakes,
                   !.retries = MaxRetries]

NextMerge ==
    \/ TransportOpen(LimMerge)
    \/ TransportError(LimMerge)
    \/ TransportClose(LimMerge)
    \/ TransportMessage(LimMerge)
    \/ AudioProcess(LimMerge)
    \/ IntervalTick(LimMerge)
    \/ StopClick(LimMerge)

SpecMerge == InitMerge /\ [][NextMerge]_vars

\* C6: when the transport opens again during a recovery whose shadow buffer
\* holds the segments [A, B] and whose visible transcript is empty, the
\* visible transcript becomes "A B" (segments [A, B]) and the shadow buffer
\* (bufferedTranscripts, bufferedFinalTranscript, bufferedInterimTranscript)
\* is empty.
C6_RecoveryMerge ==
    [][(/\ hook.ws = "CONNECTING" /\ hook'.ws = "OPEN"
        /\ rec.isRecording /\ page.wasRecordingBeforeDisconnect
        /\ page.bufferedTranscripts = <<"A", "B">>
        /\ page.transcripts = <<>> /\ page.finalTranscript = <<>>)
       => (/\ page'.transcripts = <<"A", "B">>
           /\ page'.finalTranscript = <<"A", SP, "B">>
           /\ page'.bufferedTranscripts = <<>>
           /\ page'.bufferedFinalTranscript = <<>>
           /\ page'.bufferedInterimTranscript = <<>>)]_vars

\* C16: on every connection the turn order holds: an audio or EOF frame is
\* transmitted on a connection only after a configuration frame was
\* transmitted on that connection.
C16_ConfigFirst ==
    \A i \in 1..Len(hook.wire) :
        hook.wire[i].kind \in {"audio", "eof"} =>
            \E j \in 1..(i - 1) :
                /\ hook.wire[j].gen = hook.wire[i].gen
                /\ hook.wire[j].kind = "config"

\* the connection is lost for good: the state becomes disconnected without a
\* new transport
FatalClose ==
    /\ hook.state # "disconnected" /\ hook'.state = "disconnected"
    /\ hook'.gen = hook.gen

\* C21: a fatal condition leaves the recorder stopped and every buffer empty:
\* the interval buffer, the pending chunks of the page and the pending message
\* queue of the connection.
C21_FatalIsTerminal ==
    [][FatalClose =>
          /\ ~rec'.isRecording
          /\ rec'.intervalBuffer = <<>>
          /\ page'.pendingChunks = <<>>
          /\ hook'.queue = <<>>]_vars

\* C35: in a live recording the EOF frame is the last request frame of its
\* turn: no audio frame of the recording follows it on the same transport.
C35_EofLast ==
    \A i, j \in 1..Len(hook.wire) :
        (/\ i < j
         /\ hook.wire[i].kind = "eof" /\ hook.wire[i].take > 0
         /\ hook.wire[j].gen = hook.wire[i].gen
         /\ hook.wire[j].take = hook.wire[i].take)
            => hook.wire[j].kind # "audio"

\* texts.join(" ")
RECURSIVE JoinTexts(_)
JoinTexts(texts) ==
    IF Len(texts) = 0 THEN <<>>
    ELSE IF Len(texts) = 1 THEN StrOf(texts[1])
    ELSE JoinTexts(SubSeq(texts, 1, Len(texts) - 1))
             \o <<SP>> \o StrOf(texts[Len(texts)])

\* a final result whose transcript is the empty string
EmptyResult ==
    [type |-> "result", isFinal |-> TRUE, text |-> "", deadline |-> FALSE]

\* onmessage with a final result of empty transcript
TransportEmpty(L) ==
    /\ Quiet
    /\ hook.ws = "OPEN"
    /\ Commit(handleMessage(World, World, EmptyResult),
              [env EXCEPT !.results = @ + 1], L)

\* click on the clear button of the transcript
ClearClick(L) ==
    /\ Quiet
    /\ page.transcripts # <<>>
    /\ Commit([World EXCEPT !.p.transcripts = <<>>,
                            !.p.finalTranscript = <<>>,
                            !.p.interimTranscript = <<>>], env, L)

LimTranscript ==
    [NoPage EXCEPT !.conns = 1, !.results = MaxSegments,
                   !.starts = MaxStarts, !.takes = MaxTakes,
                   !.stops = MaxStops]

NextTranscript ==
    \/ StartClick(LimTranscript)
    \/ StartContinue(LimTranscript)
    \/ StartComplete(LimTranscript)
    \/ StopClick(LimTranscript)
    \/ ClearClick(LimTranscript)
    \/ TransportOpen(LimTranscript)
    \/ TransportMessage(LimTranscript)
    \/ TransportEmpty(LimTranscript)
    \/ TransportClose(LimTranscript)

SpecTranscript == Init /\ [][NextTranscript]_vars

\* the texts from the first non-empty one on
RECURSIVE FromFirstText(_)
FromFirstText(texts) ==
    IF Len(texts) = 0 THEN <<>>
    ELSE IF texts[1] = "" THEN FromFirstText(Tail(texts))
    ELSE texts

----------------------------------------------------------------------------
(* The results of the backend during a live recording *)

LimResults ==
    [LimPage EXCEPT !.results = MaxResultMsgs, !.chunks = MaxResultChunks,
                    !.retries = MaxResultRetries]

NextResults ==
    \/ StartClick(LimResults)
    \/ StartContinue(LimResults)
    \/ StartComplete(LimResults)
    \/ StopClick(LimResults)
    \/ AudioProcess(LimResults)
    \/ IntervalTick(LimResults)
    \/ RecoveryTimerFire(LimResults)
    \/ DrainTimerFire(LimResults)
    \/ RetryTimerFire(LimResults)
    \/ TransportMessage(LimResults)
    \/ TransportOpen(LimResults)
    \/ TransportError(LimResults)
    \/ TransportClose(LimResults)
    \/ ReconnectTimerFire(LimResults)

SpecResults == Init /\ [][NextResults]_vars

\* the page handles a backend message while no recovery is in progress
NormalResult ==
    /\ env'.results = env.results + 1
    /\ ~(page.isRecovering /\ page.wasRecordingBeforeDisconnect)

----------------------------------------------------------------------------
(* The reconnect budget of a live recording: one recording of the earlier *)
(* page whose connection is lost and does not come back                    *)

LimBudget ==
    [NoPage EXCEPT !.conns = MaxBudgetConns, !.chunks = MaxBudgetChunks,
                   !.starts = MaxStarts, !.takes = MaxTakes]

InitBudget == Init /\ pageVariant = "earlier"

NextBudget ==
    \/ StartClick(LimBudget)
    \/ StartContinue(LimBudget)
    \/ StartComplete(LimBudget)
    \/ AudioProcess(LimBudget)
    \/ RecoveryTimerFire(LimBudget)
    \/ DrainTimerFire(LimBudget)
    \/ TransportOpen(LimBudget)
    \/ TransportError(LimBudget)
    \/ TransportClose(LimBudget)
    \/ ReconnectTimerFire(LimBudget)

SpecBudget == InitBudget /\ [][NextBudget]_vars

----------------------------------------------------------------------------
(* The capture of a live recording in page.tsx *)

\* startRecording resolves (isRecordingRef.current = true) and the processor
\* delivers an audio event before React has rendered isRecording = true and
\* run the effect that updates handleAudioChunkRef: the chunk is handled by
\* the handleAudioChunk of the previous render.
FirstAudioProcess(L) ==
    /\ Quiet
    /\ page.startPhase = "init"
    /\ LET c == env.chunks + 1
           W0 == startRecording(
                     initializeAudio(World, Len(AudioResources)), TRUE)
           W1 == [W0 EXCEPT !.r.completeBuffer = Append(@, c),
                            !.r.intervalBuffer = Append(@, c)]
       IN  \E fail \in BOOLEAN :
              /\ Fails(fail, handleAudioChunk(W1, World, c, env.nextId, TRUE),
                             handleAudioChunk(W1, World, c, env.nextId, FALSE))
              /\ Commit(handleAudioChunk(W1, World, c, env.nextId, fail),
                        [env EXCEPT !.chunks = @ + 1,
                                    !.fails = @ + FailCount(fail)], L)

\* click on the pause button (shown while recording and not paused)
PauseClick(L) ==
    /\ Quiet
    /\ rec.isRecording /\ ~rec.isPaused
    /\ \E fail \in BOOLEAN :
          /\ Fails(fail, pauseRecording(World, World, env.nextId, TRUE),
                         pauseRecording(World, World, env.nextId, FALSE))
          /\ Commit(pauseRecording(World, World, env.nextId, fail),
                    [env EXCEPT !.fails = @ + FailCount(fail)], L)

\* click on the resume button (shown while recording and paused)
ResumeClick(L) ==
    /\ Quiet
    /\ rec.isRecording /\ rec.isPaused
    /\ Commit(resumeRecording(World, World), env, L)

LimCapture ==
    [NoPage EXCEPT !.conns = MaxCaptureConns, !.chunks = MaxCaptureChunks,
                   !.starts = MaxStarts, !.takes = MaxTakes,
                   !.stops = MaxStops]

InitCapture == Init /\ pageVariant = "current"

NextCapture ==
    \/ StartClick(LimCapture)
    \/ StartContinue(LimCapture)
    \/ StartComplete(LimCapture)
    \/ FirstAudioProcess(LimCapture)
    \/ AudioProcess(LimCapture)
    \/ IntervalTick(LimCapture)
    \/ PauseClick(LimCapture)
    \/ ResumeClick(LimCapture)
    \/ StopClick(LimCapture)
    \/ TransportOpen(LimCapture)
    \/ TransportError(LimCapture)
    \/ TransportClose(LimCapture)

SpecCapture == InitCapture /\ [][NextCapture]_vars

(* The states of the capture pump over two recordings *)

LimPump ==
    [LimCapture EXCEPT !.takes = MaxPumpTakes, !.starts = MaxPumpTakes,
                       !.chunks = MaxPumpChunks]

NextPump ==
    \/ StartClick(LimPump)
    \/ StartContinue(LimPump)
    \/ StartComplete(LimPump)
    \/ FirstAudioProcess(LimPump)
    \/ AudioProcess(LimPump)
    \/ IntervalTick(LimPump)
    \/ PauseClick(LimPump)
    \/ ResumeClick(LimPump)
    \/ StopClick(LimPump)
    \/ TransportOpen(LimPump)
    \/ TransportError(LimPump)
    \/ TransportClose(LimPump)

SpecPump == InitCapture /\ [][NextPump]_vars

\* the states told to onStateChange
PumpStates ==
    {"idle", "initializing", "recording", "paused", "stopped", "error"}

\* idle -> initializing -> recording <-> paused -> stopped, and error
PumpMoves ==
    {<<"idle", "initializing">>, <<"initializing", "recording">>,
     <<"recording", "paused">>, <<"paused", "recording">>,
     <<"recording", "stopped">>, <<"paused", "stopped">>}
        \cup {<<s, "error">> : s \in PumpStates}

\* pauseRecording() changes nothing
PauseNoOp ==
    \A fail \in BOOLEAN :
        pauseRecording(World, World, env.nextId, fail) = World

\* resumeRecording() changes nothing
ResumeNoOp == resumeRecording(World, World) = World

----------------------------------------------------------------------------
(* Inbound frames during a live recording *)

LimInbound ==
    [NoPage EXCEPT !.conns = MaxInboundConns, !.results = MaxInboundMsgs,
                   !.malformed = MaxMalformed, !.chunks = MaxResultChunks,
                   !.starts = MaxStarts, !.takes = MaxTakes,
                   !.stops = MaxStops, !.retries = MaxResultRetries]

NextInbound ==
    \/ StartClick(LimInbound)
    \/ StartContinue(LimInbound)
    \/ StartComplete(LimInbound)
    \/ AudioProcess(LimInbound)
    \/ IntervalTick(LimInbound)
    \/ StopClick(LimInbound)
    \/ RetryTimerFire(LimInbound)
    \/ TransportMessage(LimInbound)
    \/ TransportMalformed(LimInbound)
    \/ TransportOpen(LimInbound)
    \/ TransportError(LimInbound)
    \/ TransportClose(LimInbound)
    \/ ReconnectTimerFire(LimInbound)

SpecInbound == Init /\ [][NextInbound]_vars

\* a malformed frame is handled
Malformed == env'.malformed = env.malformed + 1

\* C28: a malformed inbound frame is reported as an error to the caller and
\* leaves the transport, the connection state, the pending queue and the
\* transcript as they were.
C28_MalformedNonFatal ==
    [][Malformed =>
          /\ page'.errorToasts = page.errorToasts + 1
          /\ hook'.ws = hook.ws /\ hook'.gen = hook.gen
          /\ hook'.state = hook.state
          /\ hook'.queue = hook.queue
          /\ page'.transcripts = page.transcripts
          /\ page'.interimTranscript = page.interimTranscript]_vars

\* a malformed frame arrived on a connection that had delivered a result
C28_Witness ==
    /\ env.malformed > 0
    /\ hook.ws = "OPEN" /\ hook.state = "connected"
    /\ page.transcripts # <<>>

----------------------------------------------------------------------------
\* the per-chunk callback handles a chunk of an active recording
ChunkHandled == env'.chunks = env.chunks + 1 /\ rec'.isRecording

\* C23: while a recording is active the per-chunk callback hands no frame to
\* the connection, from the first captured chunk onward: audio frames come
\* from the interval flush only.
C23_ChunksNotSent ==
    [][ChunkHandled => hook'.wire = hook.wire /\ hook'.queue = hook.queue]_vars

\* pause is invoked on an active recording
Paused == rec.isRecording /\ ~rec.isPaused /\ rec'.isPaused

\* C24: a pause of an active recording hands a non-empty interval buffer to
\* the interval-audio consumer in the same step and leaves the buffer empty:
\* nothing captured is dropped by the pause.
C24_PauseFlushes ==
    [][Paused =>
          /\ rec'.intervalBuffer = <<>>
          /\ Len(rec.intervalBuffer) > 0 =>
                rec'.lastFlush = [by |-> "pause", audio |-> rec.intervalBuffer]]_vars

\* a recording was paused with captured audio in its interval buffer
C24_Witness ==
    /\ rec.isRecording /\ rec.isPaused
    /\ rec.lastFlush.by = "pause" /\ Len(rec.lastFlush.audio) > 0

\* an active recording is stopped
Stopped == rec.isRecording /\ ~rec'.isRecording

\* every chunk captured so far, in order
Captured == [i \in 1..env.chunks |-> i]

\* C25: a stop hands a non-empty interval buffer to the interval-audio
\* consumer and then raises the recording-complete notification with the whole
\* audio of the recording; after it the buffers and the interval timer are
\* released.
C25_StopFlushes ==
    [][Stopped =>
          /\ Len(rec.intervalBuffer) > 0 =>
                rec'.lastFlush = [by |-> "stop", audio |-> rec.intervalBuffer]
          /\ Len(rec.completeBuffer) > 0 =>
                /\ rec'.completed = rec.completed + 1
                /\ rec'.lastComplete = rec.completeBuffer
                /\ rec.take = 1 => rec'.lastComplete = Captured
          /\ rec'.intervalBuffer = <<>> /\ rec'.completeBuffer = <<>>
          /\ ~rec'.intervalTimer]_vars

\* a recording of two chunks was stopped with the second one still buffered
C25_Witness ==
    /\ ~rec.isRecording /\ rec.completed = 1
    /\ rec.lastFlush = [by |-> "stop", audio |-> <<2>>]
    /\ rec.lastComplete = <<1, 2>>

\* onRecordingComplete is called
Completed == rec'.completed = rec.completed + 1

\* C36: when a recording completes, the payloads handed to onIntervalAudio
\* during it, concatenated in order, are the audio handed to
\* onRecordingComplete, which is every chunk captured, once and in order.
C36_FlushesAreComplete ==
    [][Completed =>
          /\ rec'.flushed = rec'.lastComplete
          /\ rec'.take = 1 => rec'.lastComplete = Captured']_vars

\* a recording of two chunks was flushed by a pause and by the stop
C36_Witness ==
    /\ rec.completed = 1 /\ rec.flushed = <<1, 2>>
    /\ <<"recording", "paused">> \in rec.moves
    /\ rec.lastFlush = [by |-> "stop", audio |-> <<2>>]

\* startRecording resolves in this step: a new recording is started
Started == page.startPhase = "init" /\ page'.startPhase # "init"

\* C26: a stop cancels the interval timer in the same step, and while no
\* recording is active no interval audio is handed over and no chunk is
\* delivered to the per-chunk callback.
C26_StopCancels ==
    [][/\ Stopped => ~rec'.intervalTimer
       /\ (~rec.isRecording /\ ~rec'.isRecording /\ ~Started) =>
              /\ ~rec'.intervalTimer
              /\ rec'.lastFlush = rec.lastFlush
              /\ env'.chunks = env.chunks]_vars

\* a recording whose interval timer has fired was stopped
C26_Witness ==
    /\ ~rec.isRecording /\ rec.completed = 1 /\ ~rec.intervalTimer
    /\ rec.lastFlush.by = "interval"

\* the start attempt after a failure of initializeAudio() that had acquired
\* the first got resources, with the effects of its render
Refused(got) ==
    LET W == startRecording(initializeAudio(World, got), FALSE)
    IN  effects(W, World, NextIdAfter(W))

\* initializeAudio() fails and the start attempt ends
StartRefused ==
    /\ page.startPhase = "init"
    /\ \E got \in 0..Len(AudioResources) :
          /\ hook' = Refused(got).h
          /\ page' = Refused(got).p
          /\ rec' = Refused(got).r

\* C30: a failure to acquire the audio device ends the start attempt: the
\* error is reported, the recorder holds no resource, has no timer armed and
\* is not recording, and no further attempt is pending.
C30_StartFailureFatal ==
    [][StartRefused =>
          /\ page'.errorToasts > page.errorToasts
          /\ ~rec'.isRecording /\ ~rec'.isPaused
          /\ rec'.held = {}
          /\ ~rec'.intervalTimer
          /\ rec'.intervalBuffer = <<>> /\ rec'.completeBuffer = <<>>
          /\ page'.startPhase = "idle"
          /\ rec'.take = rec.take]_vars

\* a start attempt on a connection that never failed ended without a
\* recording and without a stop: the device was refused
C30_Witness ==
    /\ rec.take > 0 /\ ~rec.isRecording /\ rec.held = {}
    /\ page.startPhase = "idle" /\ page.errorToasts > 0
    /\ env.stops = 0 /\ rec.completed = 0
    /\ hook.state = "connected" /\ hook.gen = 1 /\ ~hook.hasError

----------------------------------------------------------------------------
(* The file upload *)

LimUpload ==
    [NoPage EXCEPT !.conns = MaxUploadConns, !.fails = MaxUploadFails,
                   !.results = MaxUploadResults, !.uploads = MaxUploads,
                   !.retries = MaxUploadRetries]

NextUpload ==
    \/ ConnectClick(LimUpload)
    \/ UploadClick(LimUpload)
    \/ UploadContinue(LimUpload)
    \/ UploadRead(LimUpload)
    \/ DeadlineTimerFire(LimUpload)
    \/ RetryTimerFire(LimUpload)
    \/ TransportMessage(LimUpload)
    \/ TransportAck(LimUpload)
    \/ TransportFault(LimUpload)
    \/ TransportOpen(LimUpload)
    \/ TransportError(LimUpload)
    \/ TransportClose(LimUpload)
    \/ StaleClose(LimUpload)
    \/ ReconnectTimerFire(LimUpload)

SpecUpload == Init /\ [][NextUpload]_vars

\* the frames of the n-th upload that were transmitted, in order
UploadFrames(n) == SelectSeq(hook.wire, LAMBDA f : f.take = UploadTake(n))

KindsOf(frames) == [i \in 1..Len(frames) |-> frames[i].kind]

UploadTurn == <<"config", "audio", "eof">>

\* C15: what a file upload has transmitted is, at every moment, the beginning
\* of its turn: one configuration frame, then one audio frame with the whole
\* file, then one EOF frame, and no request of the upload a second time.
C15_UploadTurn ==
    \A n \in 1..env.uploads :
        LET kinds == KindsOf(UploadFrames(n))
        IN  /\ Len(kinds) <= Len(UploadTurn)
            /\ kinds = SubSeq(UploadTurn, 1, Len(kinds))

\* C17: once the EOF message of an upload has been sent, the processing flag
\* stays set; the only step that clears it is the receipt of the EOF
\* acknowledgement.
C17_ProcessingUntilAck ==
    [][(/\ page.isProcessing /\ ~page'.isProcessing
        /\ page'.lastRequest.kind = "eof") => TransportAck(LimUpload)]_vars

\* how often the request with this id was transmitted
Transmissions(id) == Len(SelectSeq(hook.wire, LAMBDA f : f.id = id))

\* C19: a request of a file upload is resent at most once: it is never
\* transmitted a third time.
C19_ResentOnce ==
    \A i \in 1..Len(hook.wire) :
        hook.wire[i].take < 0 => Transmissions(hook.wire[i].id) <= 2

\* the page handles an error payload of the backend
ErrorReceived == env'.results = env.results + 1 /\ page'.lastError

\* C22: an error payload of the backend clears the processing indicator,
\* whatever its error code.
C22_ErrorClears == [][ErrorReceived => ~page'.isProcessing]_vars

\* C22, amended: an error payload other than DEADLINE_EXCEEDED (code 4) clears
\* the processing indicator, whatever the connection state.
C22_PlainErrorClears ==
    [][(ErrorReceived /\ ~page'.lastDeadline) => ~page'.isProcessing]_vars

\* the earlier page has sent the EOF of an upload and was processing when the
\* error payload arrived
C22_Witness ==
    /\ pageVariant = "earlier" /\ page.lastRequest.kind = "eof"
    /\ page.lastRequest.take < 0
    /\ page.lastError /\ ~page.lastDeadline /\ ~page.isProcessing
    /\ env.results = 1

----------------------------------------------------------------------------
(* utils/audio.ts: the LINEAR16 codec *)

RECURSIVE Pow2(_)
Pow2(n) == IF n <= 0 THEN 1 ELSE 2 * Pow2(n - 1)

\* A Float32Array element: the value m / 2^k, negated if neg
F32(neg, m, k) == [neg |-> neg, m |-> m, k |-> k]

\* floor(m * c / 2^k), the double product m * c being exact (under 40 binary
\* digits); it is formed in two halves of m so that no term passes 2^31
MulShift(m, c, k) ==
    IF k >= 12
    THEN (((m \div Pow2(12)) * c) + (((m % Pow2(12)) * c) \div Pow2(12)))
             \div Pow2(k - 12)
    ELSE (m * c) \div Pow2(k)

\* float32ToInt16 on one sample: Math.max(-1, Math.min(1, sample)), the
\* scaling, and the store into the Int16Array, which drops the fraction
float32ToInt16(x) ==
    LET clamped == IF x.k <= MantissaBits /\ x.m > Pow2(x.k)
                   THEN F32(x.neg, 1, 0) ELSE x
    IN  IF clamped.neg /\ clamped.m > 0
        THEN 0 - MulShift(clamped.m, Int16Neg, clamped.k)
        ELSE MulShift(clamped.m, Int16Pos, clamped.k)

\* the quotient n / d stored into a Float32Array: long division up to
\* MantissaBits significant digits, then rounding to nearest, ties to even;
\* q = floor(n * 2^k / d), r = n * 2^k mod d
RECURSIVE DivRound(_, _, _, _)
DivRound(q, r, k, d) ==
    IF r = 0 THEN F32(FALSE, q, k)
    ELSE IF q >= Pow2(MantissaBits - 1)
    THEN IF 2 * r > d \/ (2 * r = d /\ q % 2 = 1)
         THEN F32(FALSE, q + 1, k) ELSE F32(FALSE, q, k)
    ELSE IF 2 * r >= d
    THEN DivRound(2 * q + 1, 2 * r - d, k + 1, d)
    ELSE DivRound(2 * q, 2 * r, k + 1, d)

\* int16ToFloat32 on one sample: sample / (sample < 0 ? 0x8000 : 0x7fff)
int16ToFloat32(n) ==
    IF n < 0
    THEN [DivRound((0 - n) \div Int16Neg, (0 - n) % Int16Neg, 0, Int16Neg)
              EXCEPT !.neg = TRUE]
    ELSE DivRound(n \div Int16Pos, n % Int16Pos, 0, Int16Pos)

\* the PCM inputs of the scenario: j / 2^SampleBits, beyond [-1, 1] included
Samples ==
    {F32(j < 0, IF j < 0 THEN 0 - j ELSE j, SampleBits) :
        j \in (0 - MaxSample)..MaxSample}

InitCodec ==
    /\ variant = "auto" /\ pageVariant = "current"
    /\ hook = InitHook /\ page = InitPage /\ rec = InitRec /\ env = InitEnv
    /\ \E x \in Samples :
          pcm = [stage |-> "float", x |-> x, n |-> 0, first |-> 0, trips |-> 0]

\* float32ToInt16(buffer) on the sample
Encode ==
    /\ pcm.stage = "float"
    /\ pcm' = [pcm EXCEPT !.stage = "int",
                          !.n = float32ToInt16(pcm.x),
                          !.first = IF pcm.trips = 0
                                    THEN float32ToInt16(pcm.x) ELSE @]
    /\ UNCHANGED <<variant, pageVariant, hook, page, rec, env>>

\* int16ToFloat32(buffer) on the encoded sample
Decode ==
    /\ pcm.stage = "int"
    /\ pcm.trips < MaxTrips
    /\ pcm' = [pcm EXCEPT !.stage = "float",
                          !.x = int16ToFloat32(pcm.n),
                          !.trips = @ + 1]
    /\ UNCHANGED <<variant, pageVariant, hook, page, rec, env>>

NextCodec == Encode \/ Decode

SpecCodec == InitCodec /\ [][NextCodec]_vars

\* C32: encoding a sample, decoding it and encoding it again gives the
\* encoding of the sample: toInt16(toFloat(toInt16(x))) = toInt16(x).
C32_QuantizationStable ==
    (pcm.stage = "int" /\ pcm.trips = 1) => pcm.n = pcm.first

----------------------------------------------------------------------------
(* utils/audio.ts: splitAudioIntoChunks and mergeAudioChunks *)

\* the values of the samples of the buffers of the scenario
PcmValues == {0, 1}

\* the sample rates of the scenario: with 1 to MaxChunkMs milliseconds they
\* give chunks of 0, 1, 2, ... samples
SplitRates == {500, 1000}

\* all sequences over S of length n
RECURSIVE SeqsOfLen(_, _)
SeqsOfLen(S, n) ==
    IF n = 0 THEN {<<>>}
    ELSE {Append(b, v) : b \in SeqsOfLen(S, n - 1), v \in S}

Buffers == UNION {SeqsOfLen(PcmValues, n) : n \in 0..MaxBufLen}

\* Math.floor((sampleRate * chunkDurationMs) / 1000)
samplesPerChunk(sampleRate, chunkDurationMs) ==
    (sampleRate * chunkDurationMs) \div 1000

\* buffer.slice(i, end) with 0-based i, end
slice(buffer, i, end) == SubSeq(buffer, i + 1, end)

\* the call splitAudioIntoChunks(buffer, chunkDurationMs, sampleRate) up to
\* the head of its for loop
InitSplit ==
    /\ variant = "auto" /\ pageVariant = "current"
    /\ hook = InitHook /\ page = InitPage /\ rec = InitRec /\ env = InitEnv
    /\ \E buffer \in Buffers, sampleRate \in SplitRates,
          chunkDurationMs \in 0..MaxChunkMs :
          pcm = [stage |-> "split", buffer |-> buffer,
                 samplesPerChunk |->
                     samplesPerChunk(sampleRate, chunkDurationMs),
                 i |-> 0, chunks |-> <<>>, merged |-> <<>>]

\* one iteration of the for loop of splitAudioIntoChunks
SplitStep ==
    /\ pcm.stage = "split"
    /\ pcm.i < Len(pcm.buffer)
    /\ Len(pcm.chunks) < MaxSplitSteps
    /\ LET end == Min(pcm.i + pcm.samplesPerChunk, Len(pcm.buffer)) IN
       pcm' = [pcm EXCEPT !.chunks = Append(@, slice(pcm.buffer, pcm.i, end)),
                          !.i = @ + pcm.samplesPerChunk]
    /\ UNCHANGED <<variant, pageVariant, hook, page, rec, env>>

\* the for loop ends: return chunks
SplitReturn ==
    /\ pcm.stage = "split"
    /\ ~(pcm.i < Len(pcm.buffer))
    /\ pcm' = [pcm EXCEPT !.stage = "chunks"]
    /\ UNCHANGED <<variant, pageVariant, hook, page, rec, env>>

\* mergeAudioChunks(chunks): an array of the total length, each chunk set at
\* the offset the chunks before it take
mergeAudioChunks(chunks) ==
    LET offset[k \in 0..Len(chunks)] ==
            IF k = 0 THEN 0 ELSE offset[k - 1] + Len(chunks[k])
        owner(j) == CHOOSE k \in 1..Len(chunks) :
                        offset[k - 1] < j /\ j <= offset[k]
    IN  [j \in 1..offset[Len(chunks)] |->
            chunks[owner(j)][j - offset[owner(j) - 1]]]

\* mergeAudioChunks on the chunks returned
Merge ==
    /\ pcm.stage = "chunks"
    /\ pcm' = [pcm EXCEPT !.stage = "merged",
                          !.merged = mergeAudioChunks(pcm.chunks)]
    /\ UNCHANGED <<variant, pageVariant, hook, page, rec, env>>

NextSplit == SplitStep \/ SplitReturn \/ Merge

SpecSplit == InitSplit /\ [][NextSplit]_vars

\* C39: splitAudioIntoChunks terminates (every iteration of its loop moves
\* the position forward, towards the end of the buffer) and merging its
\* chunks gives the buffer back.
C39_SplitThenMerge ==
    [][/\ (pcm.stage = "split" /\ pcm'.stage = "split") => pcm'.i > pcm.i
       /\ pcm'.stage = "merged" => pcm'.merged = pcm'.buffer]_vars

====
